---- MODULE Spec2Model ----
\* A model of dynamic_buffer.h: reference-counted byte buffers whose metadata
\* (refcount, size, capacity) lives in a header in front of the data, the
\* in-place modification functions, the copying slices, and the builder and
\* reader cursors.  One action per public function; the caller is any program
\* that keeps its buffers in NH handle variables, one builder variable and one
\* reader variable.
EXTENDS Integers, Sequences, FiniteSets, TLC

\* ---------------------------------------------------------------- bounds
\* size_t is modelled as an unsigned word of WordBits bits.
WordBits == 6
\* Number of db_buffer variables the caller owns.
NH == 2
\* Number of heap blocks (buffers) allocated in one run; block ids are never
\* reused, so a stale pointer is always recognisable.
MaxAllocs == 2
\* The data bytes of the largest block the allocator gives out.
MaxData == 2
\* The writes a builder's log keeps.
MaxWrites == 3
\* The data bytes of the largest block where 64-bit values are written.
TypedRoom == 8
\* The blocks that realloc moves in one run.
MaxMoves == 1
\* The threads that share a buffer, and the db_retain calls they make.
NThreads == 2
MaxRetains == 2

\* ------------------------------------------------------- program constants
SIZE_MOD == 2 ^ WordBits
SIZE_MAX == SIZE_MOD - 1
\* sizeof(struct db_buffer_header): int refcount (padded), size_t size, size_t capacity
HeaderSize == 24
\* The NULL handle.
NULL == 0
\* An indeterminate byte (storage returned by malloc/realloc and never written).
Uninit == -1

\* Block ids: the blocks of the operands, one more for the result of a
\* concatenation, and those of the blocks realloc moved.
Ids == 1..(MaxAllocs + 1 + MaxMoves)
\* The caller's handle variables; the one after them receives the results of
\* db_concat and db_concat_many.
Vars == 1..NH
ResultVar == NH + 1
AllVars == 1..ResultVar

AddW(a, b) == (a + b) % SIZE_MOD
MulW(a, b) == (a * b) % SIZE_MOD

\* ----------------------------------------------------------- input sets
CapVals == {0, 2, MaxData + 1, SIZE_MAX}
DataVals == {<<>>, <<1, 2>>}
\* A single byte, for appending to a buffer that has room for one more.
ByteVals == {<<2>>}
SizeVals == {0, 1, 2, SIZE_MOD \div 2 + 1, SIZE_MAX}
PosVals == {0, 1}
OffVals == {0, 1, 2, SIZE_MAX}

VARIABLES mem, nextId, h, bld, rdr, status, acq, last, watch, quota, room, io,
          thr

vars == <<mem, nextId, h, bld, rdr, status, acq, last, watch, quota, room, io,
          thr>>

\* ------------------------------------------------------------ the heap
NoBuf == [st |-> "none", refcount |-> 0, size |-> 0, capacity |-> 0, data |-> <<>>]
FreedBuf == [st |-> "freed", refcount |-> 0, size |-> 0, capacity |-> 0, data |-> <<>>]

Live(p) == p \in Ids /\ mem[p].st = "live"
\* The run may allocate quota blocks.
CanAlloc == nextId <= quota

\* The allocator satisfies requests of at most a header and room data bytes.
HeapLimit == HeaderSize + room
\* malloc/realloc of n bytes returns a block iff the heap can satisfy it.
AllocOk(n) == n <= HeapLimit

\* Storage of n indeterminate bytes.
Fresh(n) == [k \in 1..n |-> Uninit]
\* realloc: the first min(old, new) bytes are kept, the rest is indeterminate.
Resized(data, n) == [k \in 1..n |-> IF k <= Len(data) THEN data[k] ELSE Uninit]
\* memcpy(buf + pos, bytes, Len(bytes)) inside the block.
WriteAt(data, pos, bytes) ==
    [k \in 1..Len(data) |->
        IF k > pos /\ k <= pos + Len(bytes) THEN bytes[k - pos] ELSE data[k]]
\* The bytes buf[pos .. pos+n); a byte read from outside the block is
\* indeterminate.
ReadAt(data, pos, n) ==
    [k \in 1..n |-> IF pos + k <= Len(data) THEN data[pos + k] ELSE Uninit]
\* The valid bytes of a buffer, as far as they lie inside its block.
Bytes(b) == [k \in 1..(IF b.size <= Len(b.data) THEN b.size ELSE Len(b.data)) |-> b.data[k]]

\* A db_internal_create that asks for whatever the sum comes to.
CreateOkUnchecked(capacity) == AllocOk(AddW(HeaderSize, capacity))

\* db_internal_create: the two overflow assertions and the malloc assertion.
CreateOk(capacity) ==
    LET total_size == AddW(HeaderSize, capacity)
    IN  /\ total_size >= HeaderSize
        /\ total_size >= capacity
        /\ AllocOk(total_size)

\* A db_internal_create that records the capacity as the size.
NewBufSized(capacity) ==
    [st |-> "live", refcount |-> 1, size |-> capacity, capacity |-> capacity,
     data |-> Fresh(capacity)]

\* The data bytes behind the header in a block of total_size bytes,
\* total_size being sizeof(struct db_buffer_header) + capacity as size_t.
Storage(capacity) ==
    LET total_size == AddW(HeaderSize, capacity)
    IN  IF total_size >= HeaderSize THEN total_size - HeaderSize ELSE 0

\* db_internal_create: the header it sets up and the data block behind it.
NewBuf(capacity) ==
    [st |-> "live", refcount |-> 1, size |-> 0, capacity |-> capacity,
     data |-> Fresh(Storage(capacity))]

\* A copy that forgets to set the size.
NewBufWithNoSize(capacity, bytes) ==
    [NewBuf(capacity) EXCEPT !.data = WriteAt(@, 0, bytes)]

\* A copy into a block one byte larger than asked for.
NewBufWithRoomy(capacity, bytes) ==
    IF Len(bytes) > 0
    THEN [NewBuf(capacity + 1) EXCEPT !.data = WriteAt(@, 0, bytes), !.size = Len(bytes)]
    ELSE NewBuf(capacity + 1)

\* db_new_with_data / db_slice / db_concat: create, memcpy, set size.
NewBufWith(capacity, bytes) ==
    IF Len(bytes) > 0
    THEN [NewBuf(capacity) EXCEPT !.data = WriteAt(@, 0, bytes), !.size = Len(bytes)]
    ELSE NewBuf(capacity)

\* An increment that is lost.
RefIncNone(rc) == rc

\* DB_REFCOUNT_INCREMENT / DB_REFCOUNT_DECREMENT
RefInc(rc) == rc + 1
RefDec(rc) == rc - 1

\* A sharing test that is off by one.
IsSharedOff(rc) == rc > 2

\* "Cannot modify shared buffers": the test the modification functions make.
IsShared(rc) == rc > 1

\* The accessors, on the header and block b of a live buffer.
db_size(b) == b.size
db_capacity(b) == b.capacity
db_is_empty(b) == b.size = 0
db_refcount(b) == b.refcount

\* ---------------------------------------------------- bookkeeping of a call
\* last records the call just made: its name, the handle variable it was given
\* (hv), the variable that received the result (dst), the buffer it was applied
\* to before (tgt, with its header and bytes in pre) and after (cur: a realloc
\* may move it), the arguments and the return value (-1: the call did not
\* return; booleans are 1 and 0; a handle is its block id).
\* Only the calls named in watch are recorded; any other call leaves Idle.
Idle ==
    [op |-> "idle", hv |-> 0, dst |-> 0, tgt |-> 0, cur |-> 0, a1 |-> 0,
     a2 |-> 0, dat |-> <<>>, ret |-> 0, pre |-> NoBuf]

Rec(op, hv, dst, tgt, cur, a1, a2, dat, ret) ==
    IF op \in watch
    THEN [op |-> op, hv |-> hv, dst |-> dst, tgt |-> tgt, cur |-> cur, a1 |-> a1,
          a2 |-> a2, dat |-> dat, ret |-> ret,
          pre |-> IF tgt \in Ids THEN mem[tgt] ELSE NoBuf]
    ELSE Idle

\* io keeps the writes made through the builder, in order: the call, the
\* value given to it, the bytes it stored and the position it was made at.
\* It is kept where watch names "log".
NoIO == <<>>
Wrote(op, value, bytes, at) ==
    IF "log" \in watch
    THEN Append(io, [op |-> op, value |-> value, bytes |-> bytes, at |-> at])
    ELSE io

\* The call is made by a running program, and returns; io becomes newio.
ReturnIO(op, hv, dst, tgt, cur, a1, a2, dat, ret, newio) ==
    /\ status = "running"
    /\ last' = Rec(op, hv, dst, tgt, cur, a1, a2, dat, ret)
    /\ status' = "running"
    /\ io' = newio
    /\ UNCHANGED <<watch, quota, room, thr>>

\* The call is made by a running program, and returns.
Return(op, hv, dst, tgt, cur, a1, a2, dat, ret) ==
    ReturnIO(op, hv, dst, tgt, cur, a1, a2, dat, ret, io)

\* The call ends the program: a failed DB_ASSERT ("aborted") or undefined
\* behaviour ("ub": an access outside a live block).
Stop(op, hv, dst, tgt, a1, a2, dat, how) ==
    /\ status = "running"
    /\ last' = Rec(op, hv, dst, tgt, tgt, a1, a2, dat, -1)
    /\ status' = how
    /\ UNCHANGED <<mem, nextId, h, bld, rdr, acq, watch, quota, room, io, thr>>

\* A realloc'ed block: in place, or moved to a new block (the old one is freed).
IdAfter(b, mv) == IF mv THEN nextId ELSE b
MemAfter(b, rec, mv) ==
    IF mv THEN [mem EXCEPT ![b] = FreedBuf, ![nextId] = rec]
          ELSE [mem EXCEPT ![b] = rec]
AcqAfter(b, mv) == IF mv THEN [acq EXCEPT ![nextId] = acq[b], ![b] = 0] ELSE acq
\* realloc may always move the block; a moved block needs an id of its own,
\* and a run is followed as long as one is left for it.
MoveChoices(realloc) ==
    IF ~realloc THEN {FALSE}
    ELSE IF nextId <= quota + MaxMoves THEN {TRUE, FALSE}
    ELSE {}

\* The builder: its three fields (the cell is the buffer variable a builder
\* made by db_builder_new allocates for itself), and top, the highest position
\* it has reached or, if that is more, the size of the buffer it was made
\* from; top is kept where watch names "top", and is 0 elsewhere.
Top(x) == IF "top" \in watch THEN x ELSE 0
NoBuilder ==
    [st |-> "none", owns |-> FALSE, var |-> 0, cell |-> NULL, position |-> 0,
     top |-> 0]
NoReader == [st |-> "none", buf |-> NULL, position |-> 0]

\* The threads of the program other than the one that makes the calls above:
\* whether the build has DB_ATOMIC_REFCOUNT, the buffer the threads share,
\* where each thread is in its call (pc), the value it has in hand (tmp) and
\* the handles it holds; the refcount updates made and DB_FREE calls; and
\* the thread that waits in the read of db_read_fd (rd): the variable it was
\* given, the block and the size it has in hand, and the bytes it asked for.
Threads == 1..NThreads
NoRead == [st |-> "idle", var |-> 0, buf |-> NULL, at |-> 0, n |-> 0]
NoThreads ==
    [atomic |-> FALSE, buf |-> NULL, pc |-> [t \in Threads |-> "idle"],
     tmp |-> [t \in Threads |-> 0], held |-> [t \in Threads |-> 0],
     retains |-> 0, releases |-> 0, frees |-> 0, rd |-> NoRead]

\* The state before the first call, but for the threads.
Single ==
    /\ mem = [i \in Ids |-> NoBuf]
    /\ nextId = 1
    /\ h = [v \in AllVars |-> NULL]
    /\ bld = NoBuilder
    /\ rdr = NoReader
    /\ status = "running"
    /\ acq = [i \in Ids |-> 0]
    /\ last = Idle
    /\ io = NoIO

Base == Single /\ thr = NoThreads

\* ------------------------------------------------------------ lifecycle
db_new(d, capacity) ==
    /\ h[d] = NULL
    /\ IF ~CreateOk(capacity)
       THEN Stop("new", 0, d, 0, capacity, 0, <<>>, "aborted")
       ELSE /\ CanAlloc
            /\ mem' = [mem EXCEPT ![nextId] = NewBuf(capacity)]
            /\ nextId' = nextId + 1
            /\ h' = [h EXCEPT ![d] = nextId]
            /\ Return("new", 0, d, 0, nextId, capacity, 0, <<>>, nextId)
            /\ UNCHANGED <<bld, rdr, acq>>

db_new_with_data(d, bytes) ==
    /\ h[d] = NULL
    /\ IF ~CreateOk(Len(bytes))
       THEN Stop("new_with_data", 0, d, 0, Len(bytes), 0, bytes, "aborted")
       ELSE /\ CanAlloc
            /\ mem' = [mem EXCEPT ![nextId] = NewBufWith(Len(bytes), bytes)]
            /\ nextId' = nextId + 1
            /\ h' = [h EXCEPT ![d] = nextId]
            /\ Return("new_with_data", 0, d, 0, nextId, Len(bytes), 0, bytes, nextId)
            /\ UNCHANGED <<bld, rdr, acq>>

\* The caller's own allocation: a block obtained from DB_MALLOC and filled
\* with bytes, to be handed to db_new_from_owned_data.  The block has no
\* header; the caller keeps the pointer in variable d.
RawBlock(bytes) ==
    [st |-> "raw", refcount |-> 0, size |-> 0, capacity |-> 0, data |-> bytes]

owned_data(d, bytes) ==
    /\ h[d] = NULL
    /\ CanAlloc
    /\ mem' = [mem EXCEPT ![nextId] = RawBlock(bytes)]
    /\ nextId' = nextId + 1
    /\ h' = [h EXCEPT ![d] = nextId]
    /\ Return("owned_data", 0, d, 0, nextId, Len(bytes), 0, bytes, nextId)
    /\ UNCHANGED <<bld, rdr, acq>>

\* A db_new_from_owned_data without the capacity test.
OwnedOutcomeLoose(blk, size, capacity) ==
    IF ~CreateOk(capacity)
    THEN [kind |-> "aborted", buf |-> NoBuf, oob |-> FALSE]
    ELSE IF blk.st # "raw"
    THEN [kind |-> "ub", buf |-> NoBuf, oob |-> FALSE]
    ELSE [kind |-> "ok",
          buf |-> NewBufWith(capacity, ReadAt(blk.data, 0, size)),
          oob |-> size > Len(blk.data)]

\* db_new_from_owned_data on the caller's block blk (non-NULL data): "null"
\* (capacity < size), "aborted" (db_internal_create's assertions), "ub" (data
\* is not a block DB_FREE may be given) or "ok" with the new buffer; oob
\* says that the memcpy reads outside the caller's block.
OwnedOutcome(blk, size, capacity) ==
    IF capacity < size
    THEN [kind |-> "null", buf |-> NoBuf, oob |-> FALSE]
    ELSE IF ~CreateOk(capacity)
    THEN [kind |-> "aborted", buf |-> NoBuf, oob |-> FALSE]
    ELSE IF blk.st # "raw"
    THEN [kind |-> "ub", buf |-> NoBuf, oob |-> FALSE]
    ELSE [kind |-> "ok",
          buf |-> NewBufWith(capacity, ReadAt(blk.data, 0, size)),
          oob |-> size > Len(blk.data)]

\* db_new_from_owned_data(h[s], size, capacity), or with data == NULL when s
\* is 0; the result goes to variable d.  The caller's block is copied and
\* then freed; the caller's variable keeps its address.
db_new_from_owned_data(s, d, size, capacity) ==
    /\ h[d] = NULL
    /\ IF s = 0 \/ h[s] = NULL
       THEN IF ~(size = 0 /\ capacity = 0)
            THEN Stop("new_from_owned_data", s, d, NULL, size, capacity, <<>>, "aborted")
            ELSE /\ CanAlloc
                 /\ mem' = [mem EXCEPT ![nextId] = NewBuf(0)]
                 /\ nextId' = nextId + 1
                 /\ h' = [h EXCEPT ![d] = nextId]
                 /\ Return("new_from_owned_data", s, d, NULL, NULL, size, capacity, <<>>, nextId)
                 /\ UNCHANGED <<bld, rdr, acq>>
       ELSE LET out == OwnedOutcome(mem[h[s]], size, capacity)
            IN  CASE out.kind = "null" ->
                        /\ Return("new_from_owned_data", s, d, h[s], h[s], size, capacity, <<>>, NULL)
                        /\ UNCHANGED <<mem, nextId, h, bld, rdr, acq>>
                  [] out.kind = "ok" ->
                        \/ /\ CanAlloc
                           /\ mem' = [mem EXCEPT ![h[s]] = FreedBuf, ![nextId] = out.buf]
                           /\ nextId' = nextId + 1
                           /\ h' = [h EXCEPT ![d] = nextId]
                           /\ Return("new_from_owned_data", s, d, h[s], h[s], size, capacity, <<>>, nextId)
                           /\ UNCHANGED <<bld, rdr, acq>>
                        \/ /\ out.oob
                           /\ Stop("new_from_owned_data", s, d, h[s], size, capacity, <<>>, "ub")
                  [] OTHER -> Stop("new_from_owned_data", s, d, h[s], size, capacity, <<>>, out.kind)

\* db_retain(h[s]); the caller keeps the returned handle in variable d.
db_retain(s, d) ==
    /\ h[d] = NULL
    /\ IF h[s] = NULL
       THEN /\ Return("retain", s, d, NULL, NULL, 0, 0, <<>>, NULL)
            /\ UNCHANGED <<mem, nextId, h, bld, rdr, acq>>
       ELSE IF ~Live(h[s])
       THEN Stop("retain", s, d, h[s], 0, 0, <<>>, "ub")
       ELSE /\ mem' = [mem EXCEPT ![h[s]].refcount = RefInc(@)]
            /\ h' = [h EXCEPT ![d] = h[s]]
            /\ acq' = [acq EXCEPT ![h[s]] = @ + 1]
            /\ Return("retain", s, d, h[s], h[s], 0, 0, <<>>, h[s])
            /\ UNCHANGED <<nextId, bld, rdr>>

\* A release that never frees.
ReleasedLeak(p) == [mem EXCEPT ![p].refcount = RefDec(@)]

\* The effect of db_release on the block p: decrement, free at 0.
Released(p) ==
    IF RefDec(mem[p].refcount) = 0
    THEN [mem EXCEPT ![p] = FreedBuf]
    ELSE [mem EXCEPT ![p].refcount = RefDec(@)]

db_release(s) ==
    IF h[s] = NULL
    THEN /\ Return("release", s, 0, NULL, NULL, 0, 0, <<>>, 0)
         /\ UNCHANGED <<mem, nextId, h, bld, rdr, acq>>
    ELSE IF ~Live(h[s])
    THEN Stop("release", s, 0, h[s], 0, 0, <<>>, "ub")
    ELSE /\ h' = [h EXCEPT ![s] = NULL]
         /\ mem' = Released(h[s])
         /\ acq' = [acq EXCEPT ![h[s]] = @ - 1]
         /\ Return("release", s, 0, h[s], h[s], 0, 0, <<>>, 0)
         /\ UNCHANGED <<nextId, bld, rdr>>

\* -------------------------------------------------------------- slicing
\* The bounds test of db_slice, in size_t arithmetic.
SliceBoundsOk(size, offset, length) ==
    ~(offset > size \/ AddW(offset, length) > size)

\* db_slice applied to the header and block b of a live buffer: "null"
\* (invalid bounds), "aborted" (db_internal_create's assertions) or "ok" with
\* the new buffer; oob says that the memcpy reads outside the source block.
SliceOutcome(b, offset, length) ==
    IF ~SliceBoundsOk(b.size, offset, length)
    THEN [kind |-> "null", buf |-> NoBuf, oob |-> FALSE]
    ELSE IF ~CreateOk(length)
    THEN [kind |-> "aborted", buf |-> NoBuf, oob |-> FALSE]
    ELSE [kind |-> "ok",
          buf |-> NewBufWith(length, ReadAt(b.data, offset, length)),
          oob |-> length > 0 /\ offset + length > Len(b.data)]

\* A db_slice_from that rejects the offset at the end of the buffer.
SliceFromOutcomeStrict(b, offset) ==
    IF offset >= b.size
    THEN [kind |-> "null", buf |-> NoBuf, oob |-> FALSE]
    ELSE SliceOutcome(b, offset, b.size - offset)

\* db_slice_from: its own test, then db_slice to the end.
SliceFromOutcome(b, offset) ==
    IF offset > b.size
    THEN [kind |-> "null", buf |-> NoBuf, oob |-> FALSE]
    ELSE SliceOutcome(b, offset, b.size - offset)

\* db_slice_to: its own test, then db_slice from the start.
SliceToOutcome(b, length) ==
    IF length > b.size
    THEN [kind |-> "null", buf |-> NoBuf, oob |-> FALSE]
    ELSE SliceOutcome(b, 0, length)

\* A slicing call on h[s] with outcome out; the result goes to variable d.  A
\* read outside the source block either faults or yields indeterminate bytes.
SliceCall(op, s, d, a1, a2, out) ==
    CASE out.kind = "null" ->
            /\ Return(op, s, d, h[s], h[s], a1, a2, <<>>, NULL)
            /\ UNCHANGED <<mem, nextId, h, bld, rdr, acq>>
      [] out.kind = "ok" ->
            \/ /\ CanAlloc
               /\ mem' = [mem EXCEPT ![nextId] = out.buf]
               /\ nextId' = nextId + 1
               /\ h' = [h EXCEPT ![d] = nextId]
               /\ Return(op, s, d, h[s], h[s], a1, a2, <<>>, nextId)
               /\ UNCHANGED <<bld, rdr, acq>>
            \/ /\ out.oob
               /\ Stop(op, s, d, h[s], a1, a2, <<>>, "ub")
      [] OTHER -> Stop(op, s, d, h[s], a1, a2, <<>>, out.kind)

db_slice(s, d, offset, length) ==
    /\ h[d] = NULL
    /\ IF h[s] = NULL THEN Stop("slice", s, d, NULL, offset, length, <<>>, "aborted")
       ELSE IF ~Live(h[s]) THEN Stop("slice", s, d, h[s], offset, length, <<>>, "ub")
       ELSE SliceCall("slice", s, d, offset, length, SliceOutcome(mem[h[s]], offset, length))

db_slice_from(s, d, offset) ==
    /\ h[d] = NULL
    /\ IF h[s] = NULL THEN Stop("slice_from", s, d, NULL, offset, 0, <<>>, "aborted")
       ELSE IF ~Live(h[s]) THEN Stop("slice_from", s, d, h[s], offset, 0, <<>>, "ub")
       ELSE SliceCall("slice_from", s, d, offset, 0, SliceFromOutcome(mem[h[s]], offset))

db_slice_to(s, d, length) ==
    /\ h[d] = NULL
    /\ IF h[s] = NULL THEN Stop("slice_to", s, d, NULL, length, 0, <<>>, "aborted")
       ELSE IF ~Live(h[s]) THEN Stop("slice_to", s, d, h[s], length, 0, <<>>, "ub")
       ELSE SliceCall("slice_to", s, d, length, 0, SliceToOutcome(mem[h[s]], length))

\* --------------------------------------------------------- modification
\* db_resize on the header and block b (a live buffer): the return value, the
\* header and block afterwards, and whether realloc was called.
ResizeOutcome(b, new_size) ==
    IF IsShared(b.refcount)
    THEN [kind |-> "ok", ret |-> 0, buf |-> b, realloc |-> FALSE]
    ELSE IF new_size <= b.capacity
    THEN [kind |-> "ok", ret |-> 1, buf |-> [b EXCEPT !.size = new_size], realloc |-> FALSE]
    ELSE LET new_capacity == MulW(new_size, 2)
             total_size == AddW(HeaderSize, new_capacity)
         IN  IF ~AllocOk(total_size)
             THEN [kind |-> "ok", ret |-> 0, buf |-> b, realloc |-> FALSE]
             ELSE IF total_size < HeaderSize
             THEN [kind |-> "ub", ret |-> -1, buf |-> b, realloc |-> FALSE]
             ELSE [kind |-> "ok", ret |-> 1,
                   buf |-> [b EXCEPT !.capacity = new_capacity, !.size = new_size,
                                     !.data = Resized(@, total_size - HeaderSize)],
                   realloc |-> TRUE]

\* A db_reserve that grows by cutting the stored bytes off.
ReserveOutcomeBlank(b, min_capacity) ==
    IF min_capacity <= b.capacity \/ IsShared(b.refcount)
          \/ ~AllocOk(AddW(HeaderSize, min_capacity))
    THEN [kind |-> "ok", ret |-> IF min_capacity <= b.capacity THEN 1 ELSE 0,
          buf |-> b, realloc |-> FALSE]
    ELSE [kind |-> "ok", ret |-> 1,
          buf |-> [b EXCEPT !.capacity = min_capacity, !.data = Fresh(min_capacity)],
          realloc |-> TRUE]

\* A db_reserve that grows the way db_resize does.
ReserveOutcomeDoubled(b, min_capacity) ==
    IF min_capacity <= b.capacity
    THEN [kind |-> "ok", ret |-> 1, buf |-> b, realloc |-> FALSE]
    ELSE IF IsShared(b.refcount)
    THEN [kind |-> "ok", ret |-> 0, buf |-> b, realloc |-> FALSE]
    ELSE LET new_capacity == IF MulW(b.capacity, 2) > min_capacity
                             THEN MulW(b.capacity, 2) ELSE min_capacity
             total_size == AddW(HeaderSize, new_capacity)
         IN  IF ~AllocOk(total_size)
             THEN [kind |-> "ok", ret |-> 0, buf |-> b, realloc |-> FALSE]
             ELSE IF total_size < HeaderSize
             THEN [kind |-> "ub", ret |-> -1, buf |-> b, realloc |-> FALSE]
             ELSE [kind |-> "ok", ret |-> 1,
                   buf |-> [b EXCEPT !.capacity = new_capacity,
                                     !.data = Resized(@, total_size - HeaderSize)],
                   realloc |-> TRUE]

\* db_reserve on the header and block b (a live buffer).
ReserveOutcome(b, min_capacity) ==
    IF min_capacity <= b.capacity
    THEN [kind |-> "ok", ret |-> 1, buf |-> b, realloc |-> FALSE]
    ELSE IF IsShared(b.refcount)
    THEN [kind |-> "ok", ret |-> 0, buf |-> b, realloc |-> FALSE]
    ELSE LET total_size == AddW(HeaderSize, min_capacity)
         IN  IF ~AllocOk(total_size)
             THEN [kind |-> "ok", ret |-> 0, buf |-> b, realloc |-> FALSE]
             ELSE IF total_size < HeaderSize
             THEN [kind |-> "ub", ret |-> -1, buf |-> b, realloc |-> FALSE]
             ELSE [kind |-> "ok", ret |-> 1,
                   buf |-> [b EXCEPT !.capacity = min_capacity,
                                     !.data = Resized(@, total_size - HeaderSize)],
                   realloc |-> TRUE]

\* A db_append that stores the bytes at the front of the buffer.
AppendOutcomeFront(b, bytes) ==
    LET r == ReserveOutcome(b, AddW(b.size, Len(bytes)))
    IN  IF IsShared(b.refcount) \/ r.kind = "ub" \/ r.ret = 0
        THEN [kind |-> "ok", ret |-> 0, buf |-> b, realloc |-> FALSE]
        ELSE [kind |-> "ok", ret |-> 1,
              buf |-> [r.buf EXCEPT !.data = WriteAt(@, 0, bytes),
                                    !.size = AddW(b.size, Len(bytes))],
              realloc |-> r.realloc]

\* db_append of a non-empty byte string on the header and block b.
AppendOutcome(b, bytes) ==
    IF IsShared(b.refcount)
    THEN [kind |-> "ok", ret |-> 0, buf |-> b, realloc |-> FALSE]
    ELSE LET old_size == b.size
             need == AddW(old_size, Len(bytes))
             r == IF need > b.capacity THEN ReserveOutcome(b, need)
                  ELSE [kind |-> "ok", ret |-> 1, buf |-> b, realloc |-> FALSE]
         IN  IF r.kind = "ub" THEN r
             ELSE IF r.ret = 0 THEN r
             ELSE IF old_size + Len(bytes) > Len(r.buf.data)
             THEN [kind |-> "ub", ret |-> -1, buf |-> b, realloc |-> FALSE]
             ELSE [kind |-> "ok", ret |-> 1,
                   buf |-> [r.buf EXCEPT !.data = WriteAt(@, old_size, bytes),
                                         !.size = need],
                   realloc |-> r.realloc]

\* A db_clear that also gives up the capacity.
ClearOutcomeShrink(b) ==
    IF IsShared(b.refcount)
    THEN [kind |-> "ok", ret |-> 0, buf |-> b, realloc |-> FALSE]
    ELSE [kind |-> "ok", ret |-> 1, buf |-> [b EXCEPT !.size = 0, !.capacity = 0],
          realloc |-> FALSE]

\* db_clear on the header and block b.
ClearOutcome(b) ==
    IF IsShared(b.refcount)
    THEN [kind |-> "ok", ret |-> 0, buf |-> b, realloc |-> FALSE]
    ELSE [kind |-> "ok", ret |-> 1, buf |-> [b EXCEPT !.size = 0], realloc |-> FALSE]

\* A modification call through the handle variable s (a db_buffer* for
\* resize, reserve and append) with outcome out.
ModifyCall(op, s, a1, dat, out) ==
    IF out.kind = "ub" THEN Stop(op, s, 0, h[s], a1, 0, dat, "ub")
    ELSE \E mv \in MoveChoices(out.realloc) :
            /\ mem' = MemAfter(h[s], out.buf, mv)
            /\ nextId' = IF mv THEN nextId + 1 ELSE nextId
            /\ h' = [h EXCEPT ![s] = IdAfter(h[s], mv)]
            /\ acq' = AcqAfter(h[s], mv)
            /\ Return(op, s, 0, h[s], IdAfter(h[s], mv), a1, 0, dat, out.ret)
            /\ UNCHANGED <<bld, rdr>>

db_resize(s, new_size) ==
    IF h[s] = NULL THEN Stop("resize", s, 0, NULL, new_size, 0, <<>>, "aborted")
    ELSE IF ~Live(h[s]) THEN Stop("resize", s, 0, h[s], new_size, 0, <<>>, "ub")
    ELSE ModifyCall("resize", s, new_size, <<>>, ResizeOutcome(mem[h[s]], new_size))

db_reserve(s, min_capacity) ==
    IF h[s] = NULL THEN Stop("reserve", s, 0, NULL, min_capacity, 0, <<>>, "aborted")
    ELSE IF ~Live(h[s]) THEN Stop("reserve", s, 0, h[s], min_capacity, 0, <<>>, "ub")
    ELSE ModifyCall("reserve", s, min_capacity, <<>>, ReserveOutcome(mem[h[s]], min_capacity))

db_append(s, bytes) ==
    IF h[s] = NULL THEN Stop("append", s, 0, NULL, Len(bytes), 0, bytes, "aborted")
    ELSE IF Len(bytes) = 0
    THEN /\ Return("append", s, 0, h[s], h[s], 0, 0, bytes, 1)
         /\ UNCHANGED <<mem, nextId, h, bld, rdr, acq>>
    ELSE IF ~Live(h[s]) THEN Stop("append", s, 0, h[s], Len(bytes), 0, bytes, "ub")
    ELSE ModifyCall("append", s, Len(bytes), bytes, AppendOutcome(mem[h[s]], bytes))

db_clear(s) ==
    IF h[s] = NULL THEN Stop("clear", s, 0, NULL, 0, 0, <<>>, "aborted")
    ELSE IF ~Live(h[s]) THEN Stop("clear", s, 0, h[s], 0, 0, <<>>, "ub")
    ELSE ModifyCall("clear", s, 0, <<>>, ClearOutcome(mem[h[s]]))

\* ------------------------------------------------------------------ files
\* The default chunk size of db_read_fd, 4096, on the scale of the word:
\* more than an allocator of the model gives, and far from SIZE_MAX.
DefaultChunk == 2 ^ (WordBits - 2)

\* db_read_fd on the header and block b, up to the call of read: -1 is
\* returned for a shared buffer and for a failed db_reserve; otherwise (ret
\* 1) read is called on the header and block given, reallocated or not.
ReadFdOutcome(b, max_bytes) ==
    IF IsShared(b.refcount)
    THEN [kind |-> "ok", ret |-> -1, buf |-> b, realloc |-> FALSE]
    ELSE LET read_size == IF max_bytes = 0 THEN DefaultChunk ELSE max_bytes
             current_size == b.size
             need == AddW(current_size, read_size)
             r == IF need > b.capacity THEN ReserveOutcome(b, need)
                  ELSE [kind |-> "ok", ret |-> 1, buf |-> b, realloc |-> FALSE]
         IN  IF r.kind = "ub" THEN r
             ELSE IF r.ret = 0
             THEN [kind |-> "ok", ret |-> -1, buf |-> b, realloc |-> FALSE]
             ELSE r

\* db_read_fd(&h[s], fd, max_bytes), made by a thread of its own, up to its
\* call of read: the two assertions, the refcount test and db_reserve.  The
\* thread then waits in read for as long as the descriptor has no data, with
\* the address of the block and current_size in hand; the calls made
\* meanwhile are those of the other threads.  No call has returned last.
db_read_fd(s, fd, max_bytes) ==
    /\ thr.rd.st = "idle"
    /\ IF h[s] = NULL THEN Stop("read_fd", s, 0, NULL, max_bytes, 0, <<>>, "aborted")
       ELSE IF fd < 0 THEN Stop("read_fd", s, 0, h[s], max_bytes, 0, <<>>, "aborted")
       ELSE IF ~Live(h[s]) THEN Stop("read_fd", s, 0, h[s], max_bytes, 0, <<>>, "ub")
       ELSE LET out == ReadFdOutcome(mem[h[s]], max_bytes)
            IN  IF out.kind = "ub"
                THEN Stop("read_fd", s, 0, h[s], max_bytes, 0, <<>>, "ub")
                ELSE IF out.ret = -1
                THEN /\ Return("read_fd", s, 0, h[s], h[s], max_bytes, 0, <<>>, -1)
                     /\ UNCHANGED <<mem, nextId, h, bld, rdr, acq>>
                ELSE \E mv \in MoveChoices(out.realloc) :
                        /\ status = "running"
                        /\ mem' = MemAfter(h[s], out.buf, mv)
                        /\ nextId' = IF mv THEN nextId + 1 ELSE nextId
                        /\ h' = [h EXCEPT ![s] = IdAfter(h[s], mv)]
                        /\ acq' = AcqAfter(h[s], mv)
                        /\ thr' = [thr EXCEPT !.rd =
                                     [st |-> "wait", var |-> s,
                                      buf |-> IdAfter(h[s], mv),
                                      at |-> mem[h[s]].size,
                                      n |-> IF max_bytes = 0 THEN DefaultChunk
                                            ELSE max_bytes]]
                        /\ last' = Idle
                        /\ UNCHANGED <<bld, rdr, status, watch, quota, room, io>>

\* read returns in the thread that waits in db_read_fd: it has failed (not
\* open), or it has stored the bytes got, at most read_size, at buf +
\* current_size; db_read_fd then sets the size if bytes were read, and
\* returns read's value.  The block is the one the thread had when it called
\* read: a store into it is one outside a live block when the block has been
\* freed or made smaller meanwhile.
db_read_fd_return(open, got) ==
    /\ thr.rd.st = "wait"
    /\ Len(got) <= thr.rd.n
    /\ LET r == thr.rd
           stored == open /\ Len(got) > 0
       IN  IF stored /\ (~Live(r.buf) \/ r.at + Len(got) > Len(mem[r.buf].data))
           THEN Stop("read_fd", r.var, 0, r.buf, r.n, 0, got, "ub")
           ELSE /\ status = "running"
                /\ mem' = IF stored
                          THEN [mem EXCEPT ![r.buf] =
                                  [@ EXCEPT !.data = WriteAt(@, r.at, got),
                                            !.size = r.at + Len(got)]]
                          ELSE mem
                /\ thr' = [thr EXCEPT !.rd = NoRead]
                /\ last' = Rec("read_fd", r.var, 0, r.buf, r.buf, r.n, 0, got,
                               IF open THEN Len(got) ELSE -1)
                /\ UNCHANGED <<nextId, h, bld, rdr, status, acq, watch, quota, room, io>>

\* db_read_file(filename); the result goes to variable d.  The file is
\* "none" (the name is NULL, or fopen fails), "unsized" (ftell fails) or
\* "plain", with the bytes contents, of which fread delivers the first
\* nread.
db_read_file(d, file, contents, nread) ==
    /\ h[d] = NULL
    /\ nread <= Len(contents)
    /\ LET file_size == Len(contents)
       IN  IF file # "plain"
           THEN /\ Return("read_file", 0, d, 0, NULL, file_size, nread, contents, NULL)
                /\ UNCHANGED <<mem, nextId, h, bld, rdr, acq>>
           ELSE IF ~CreateOk(file_size)
           THEN Stop("read_file", 0, d, 0, file_size, nread, contents, "aborted")
           ELSE /\ CanAlloc
                /\ mem' = [mem EXCEPT ![nextId] =
                             [NewBuf(file_size) EXCEPT
                                !.data = WriteAt(@, 0, SubSeq(contents, 1, nread)),
                                !.size = nread]]
                /\ nextId' = nextId + 1
                /\ h' = [h EXCEPT ![d] = nextId]
                /\ Return("read_file", 0, d, 0, nextId, file_size, nread, contents, nextId)
                /\ UNCHANGED <<bld, rdr, acq>>

\* ---------------------------------------------------------- combination
\* An argument of db_concat, db_concat_many and db_equals: the handle in the
\* caller's variable v, or NULL when v is 0.
Arg(v) == IF v = 0 THEN NULL ELSE h[v]
\* The header and block behind a handle; a NULL handle has none.
Deref(p) == IF p = NULL THEN NoBuf ELSE mem[p]
\* The handle is NULL or refers to a live buffer.
Usable(p) == p = NULL \/ Live(p)

\* A db_concat that copies the second operand to the start of the result.
ConcatOutcomeFront(b1, b2) ==
    LET total_size == AddW(b1.size, b2.size)
    IN  IF ~CreateOk(total_size)
        THEN [kind |-> "aborted", buf |-> NoBuf, oob |-> FALSE]
        ELSE [kind |-> "ok",
              buf |-> [NewBuf(total_size) EXCEPT
                         !.data = WriteAt(WriteAt(@, 0, ReadAt(b1.data, 0, b1.size)),
                                          0, ReadAt(b2.data, 0, b2.size)),
                         !.size = total_size],
              oob |-> FALSE]

\* db_concat on the headers and blocks b1 and b2 (NoBuf for a NULL operand,
\* which counts as size 0): "aborted" (db_new's assertions), "ub" (a memcpy
\* writes outside the result, after size1 + size2 wrapped) or "ok" with the
\* new buffer; oob says that a memcpy reads outside an operand's block.
ConcatOutcome(b1, b2) ==
    LET size1 == b1.size
        size2 == b2.size
        total_size == AddW(size1, size2)
    IN  IF total_size = 0 THEN [kind |-> "ok", buf |-> NewBuf(0), oob |-> FALSE]
        ELSE IF ~CreateOk(total_size)
        THEN [kind |-> "aborted", buf |-> NoBuf, oob |-> FALSE]
        ELSE IF size1 + size2 > total_size
        THEN [kind |-> "ub", buf |-> NoBuf, oob |-> FALSE]
        ELSE [kind |-> "ok",
              buf |-> [NewBuf(total_size) EXCEPT
                         !.data = WriteAt(WriteAt(@, 0, ReadAt(b1.data, 0, size1)),
                                          size1, ReadAt(b2.data, 0, size2)),
                         !.size = IF size2 > 0 THEN total_size
                                  ELSE IF size1 > 0 THEN size1 ELSE 0],
              oob |-> size1 > Len(b1.data) \/ size2 > Len(b2.data)]

\* db_concat(Arg(a), Arg(b)); the result goes to the result variable.
db_concat(a, b) ==
    /\ h[ResultVar] = NULL
    /\ IF ~(Usable(Arg(a)) /\ Usable(Arg(b)))
       THEN Stop("concat", a, ResultVar, Arg(a), b, 0, <<>>, "ub")
       ELSE LET out == ConcatOutcome(Deref(Arg(a)), Deref(Arg(b)))
            IN  CASE out.kind = "ok" ->
                        \/ /\ CanAlloc
                           /\ mem' = [mem EXCEPT ![nextId] = out.buf]
                           /\ nextId' = nextId + 1
                           /\ h' = [h EXCEPT ![ResultVar] = nextId]
                           /\ Return("concat", a, ResultVar, Arg(a), Arg(b), b, 0, <<>>, nextId)
                           /\ UNCHANGED <<bld, rdr, acq>>
                        \/ /\ out.oob
                           /\ Stop("concat", a, ResultVar, Arg(a), b, 0, <<>>, "ub")
                  [] OTHER -> Stop("concat", a, ResultVar, Arg(a), b, 0, <<>>, out.kind)

\* The array argument of db_concat_many: NULL, or the caller's variables (0
\* for a NULL entry) whose handles it holds.
NoArray == [null |-> TRUE, at |-> <<>>]
Array(vs) == [null |-> FALSE, at |-> vs]
\* The first count entries of the array, as handles.
RECURSIVE Entries(_, _)
Entries(buffers, count) ==
    IF count = 0 THEN <<>>
    ELSE Append(Entries(buffers, count - 1), Arg(buffers.at[count]))
\* The headers and blocks behind a sequence of handles.
RECURSIVE Blocks(_)
Blocks(es) == IF es = <<>> THEN <<>> ELSE <<Deref(Head(es))>> \o Blocks(Tail(es))

\* The first loop of db_concat_many: the sum of the sizes, in size_t.
RECURSIVE TotalSize(_)
TotalSize(bs) ==
    IF bs = <<>> THEN 0 ELSE AddW(TotalSize(SubSeq(bs, 1, Len(bs) - 1)), bs[Len(bs)].size)

\* The second loop: the entries copied one behind the other from offset on.
RECURSIVE CopyAll(_, _, _)
CopyAll(data, offset, bs) ==
    IF bs = <<>> THEN data
    ELSE CopyAll(WriteAt(data, offset, ReadAt(Head(bs).data, 0, Head(bs).size)),
                 offset + Head(bs).size, Tail(bs))

\* The sizes of the entries, added without wrapping.
RECURSIVE TrueSize(_)
TrueSize(bs) == IF bs = <<>> THEN 0 ELSE Head(bs).size + TrueSize(Tail(bs))

\* A second loop that never advances the offset.
RECURSIVE CopyAllStuck(_, _, _)
CopyAllStuck(data, offset, bs) ==
    IF bs = <<>> THEN data
    ELSE CopyAllStuck(WriteAt(data, offset, ReadAt(Head(bs).data, 0, Head(bs).size)),
                      offset, Tail(bs))

\* A db_concat_many whose copies all start at offset 0.
ConcatManyOutcomeStuck(isnull, bs) ==
    IF ~CreateOk(TotalSize(bs))
    THEN [kind |-> "aborted", buf |-> NoBuf, oob |-> FALSE]
    ELSE [kind |-> "ok",
          buf |-> [NewBuf(TotalSize(bs)) EXCEPT !.data = CopyAllStuck(@, 0, bs),
                                                !.size = TotalSize(bs)],
          oob |-> FALSE]

\* db_concat_many on the headers and blocks bs of the first count entries
\* (NoBuf for a NULL entry); isnull says that the array itself is NULL.
ConcatManyOutcome(isnull, bs) ==
    IF isnull \/ Len(bs) = 0 THEN [kind |-> "ok", buf |-> NewBuf(0), oob |-> FALSE]
    ELSE LET total_size == TotalSize(bs)
         IN  IF ~CreateOk(total_size)
             THEN [kind |-> "aborted", buf |-> NoBuf, oob |-> FALSE]
             ELSE IF TrueSize(bs) > total_size
             THEN [kind |-> "ub", buf |-> NoBuf, oob |-> FALSE]
             ELSE [kind |-> "ok",
                   buf |-> [NewBuf(total_size) EXCEPT !.data = CopyAll(@, 0, bs),
                                                      !.size = total_size],
                   oob |-> \E i \in 1..Len(bs) : bs[i].size > Len(bs[i].data)]

\* db_concat_many(buffers, count); the result goes to the result variable.
db_concat_many(buffers, count) ==
    LET es == IF buffers.null THEN <<>> ELSE Entries(buffers, count)
    IN  /\ h[ResultVar] = NULL
        /\ buffers.null \/ count <= Len(buffers.at)
        /\ IF \E i \in 1..Len(es) : ~Usable(es[i])
           THEN Stop("concat_many", 0, ResultVar, NULL, count, 0, es, "ub")
           ELSE LET out == ConcatManyOutcome(buffers.null, Blocks(es))
                IN  CASE out.kind = "ok" ->
                            \/ /\ CanAlloc
                               /\ mem' = [mem EXCEPT ![nextId] = out.buf]
                               /\ nextId' = nextId + 1
                               /\ h' = [h EXCEPT ![ResultVar] = nextId]
                               /\ Return("concat_many", 0, ResultVar, NULL, NULL, count,
                                         IF buffers.null THEN 1 ELSE 0, es, nextId)
                               /\ UNCHANGED <<bld, rdr, acq>>
                            \/ /\ out.oob
                               /\ Stop("concat_many", 0, ResultVar, NULL, count, 0, es, "ub")
                      [] OTHER -> Stop("concat_many", 0, ResultVar, NULL, count, 0, es, out.kind)

\* The values memcmp(buf1, buf2, n) == 0 can have: one value when every
\* byte read is determinate or a determinate pair differs, either value
\* when the outcome hangs on an indeterminate byte.
SameBytes(d1, d2, n) ==
    IF \E k \in 1..n : d1[k] # Uninit /\ d2[k] # Uninit /\ d1[k] # d2[k] THEN {0}
    ELSE IF \E k \in 1..n : d1[k] = Uninit \/ d2[k] = Uninit THEN {0, 1}
    ELSE {1}

\* A db_equals that compares the whole blocks.
EqualsOutcomeBlocks(p1, p2) ==
    IF p1 = p2 THEN [kind |-> "ok", rets |-> {1}]
    ELSE IF p1 = NULL \/ p2 = NULL THEN [kind |-> "ok", rets |-> {0}]
    ELSE [kind |-> "ok", rets |-> {IF mem[p1].data = mem[p2].data THEN 1 ELSE 0}]

\* db_equals on the handles p1 and p2: the values it can return, or "ub"
\* when the memcmp reads outside a block.
EqualsOutcome(p1, p2) ==
    IF p1 = p2 THEN [kind |-> "ok", rets |-> {1}]
    ELSE IF p1 = NULL \/ p2 = NULL THEN [kind |-> "ok", rets |-> {0}]
    ELSE IF ~(Live(p1) /\ Live(p2)) THEN [kind |-> "ub", rets |-> {}]
    ELSE LET size1 == mem[p1].size
             size2 == mem[p2].size
         IN  IF size1 # size2 THEN [kind |-> "ok", rets |-> {0}]
             ELSE IF size1 > Len(mem[p1].data) \/ size1 > Len(mem[p2].data)
             THEN [kind |-> "ub", rets |-> {}]
             ELSE [kind |-> "ok", rets |-> SameBytes(mem[p1].data, mem[p2].data, size1)]

\* db_equals(Arg(a), Arg(b)).
db_equals(a, b) ==
    LET out == EqualsOutcome(Arg(a), Arg(b))
    IN  IF out.kind = "ub" THEN Stop("equals", a, 0, Arg(a), b, 0, <<>>, "ub")
        ELSE \E r \in out.rets :
                /\ Return("equals", a, 0, Arg(a), Arg(b), b, 0, <<>>, r)
                /\ UNCHANGED <<mem, nextId, h, bld, rdr, acq>>

\* The sign of an int.
Sign(x) == IF x < 0 THEN -1 ELSE IF x > 0 THEN 1 ELSE 0

\* The first of the n positions at which the two blocks differ, or at which
\* a byte is indeterminate; 0 when there is none.
FirstOpen(d1, d2, n) ==
    LET open == {k \in 1..n : d1[k] = Uninit \/ d2[k] = Uninit \/ d1[k] # d2[k]}
    IN  IF open = {} THEN 0 ELSE CHOOSE k \in open : \A j \in open : k <= j

\* A memcmp that compares the bytes as signed char.
MemCmpSigned(d1, d2, n) ==
    LET k == FirstOpen(d1, d2, n)
        sc(x) == IF x >= 128 THEN x - 256 ELSE x
    IN  IF k = 0 THEN {0}
        ELSE IF d1[k] = Uninit \/ d2[k] = Uninit THEN (-255)..255
        ELSE {sc(d1[k]) - sc(d2[k]), Sign(sc(d1[k]) - sc(d2[k]))}

\* The values memcmp(d1, d2, n) can have.  The bytes are compared as unsigned
\* char; the C standard fixes the sign of the result at the first difference
\* and leaves its magnitude to the library, which returns the difference of
\* the two bytes or its sign.  A comparison that hangs on an indeterminate
\* byte can have any outcome: any difference of two bytes, or 0.
MemCmp(d1, d2, n) ==
    LET k == FirstOpen(d1, d2, n)
    IN  IF k = 0 THEN {0}
        ELSE IF d1[k] = Uninit \/ d2[k] = Uninit THEN (-255)..255
        ELSE {d1[k] - d2[k], Sign(d1[k] - d2[k])}

\* A db_compare that never recognises a pair of buffers as equal.
CompareOutcomeNoTie(p1, p2) ==
    IF p1 = p2 THEN [kind |-> "ok", rets |-> {0}]
    ELSE IF p1 = NULL THEN [kind |-> "ok", rets |-> {-1}]
    ELSE IF p2 = NULL THEN [kind |-> "ok", rets |-> {1}]
    ELSE IF ~(Live(p1) /\ Live(p2)) THEN [kind |-> "ub", rets |-> {}]
    ELSE LET size1 == mem[p1].size
             size2 == mem[p2].size
             min_size == IF size1 < size2 THEN size1 ELSE size2
         IN  IF min_size > Len(mem[p1].data) \/ min_size > Len(mem[p2].data)
             THEN [kind |-> "ub", rets |-> {}]
             ELSE LET result == MemCmp(mem[p1].data, mem[p2].data, min_size)
                  IN  [kind |-> "ok",
                       rets |-> (result \ {0}) \cup
                                (IF 0 \in result
                                 THEN {IF size1 < size2 THEN -1 ELSE 1}
                                 ELSE {})]

\* db_compare on the handles p1 and p2: the values it can return, or "ub"
\* when the memcmp reads outside a block.  A nonzero memcmp result is
\* returned as it is.
CompareOutcome(p1, p2) ==
    IF p1 = p2 THEN [kind |-> "ok", rets |-> {0}]
    ELSE IF p1 = NULL THEN [kind |-> "ok", rets |-> {-1}]
    ELSE IF p2 = NULL THEN [kind |-> "ok", rets |-> {1}]
    ELSE IF ~(Live(p1) /\ Live(p2)) THEN [kind |-> "ub", rets |-> {}]
    ELSE LET size1 == mem[p1].size
             size2 == mem[p2].size
             min_size == IF size1 < size2 THEN size1 ELSE size2
         IN  IF min_size > Len(mem[p1].data) \/ min_size > Len(mem[p2].data)
             THEN [kind |-> "ub", rets |-> {}]
             ELSE LET result == MemCmp(mem[p1].data, mem[p2].data, min_size)
                  IN  [kind |-> "ok",
                       rets |-> (result \ {0}) \cup
                                (IF 0 \in result
                                 THEN {IF size1 < size2 THEN -1
                                       ELSE IF size1 > size2 THEN 1 ELSE 0}
                                 ELSE {})]

\* db_compare(Arg(a), Arg(b)).
db_compare(a, b) ==
    LET out == CompareOutcome(Arg(a), Arg(b))
    IN  IF out.kind = "ub" THEN Stop("compare", a, 0, Arg(a), b, 0, <<>>, "ub")
        ELSE \E r \in out.rets :
                /\ Return("compare", a, 0, Arg(a), Arg(b), b, 0, <<>>, r)
                /\ UNCHANGED <<mem, nextId, h, bld, rdr, acq>>

\* --------------------------------------------------------------- builder
\* *(builder->buf_ptr): the builder's own cell, or the caller's variable.
BuilderBuf == IF bld.owns THEN bld.cell ELSE h[bld.var]

db_builder_new(initial_capacity) ==
    /\ bld.st = "none"
    /\ IF ~CreateOk(initial_capacity)
       THEN Stop("builder_new", 0, 0, 0, initial_capacity, 0, <<>>, "aborted")
       ELSE /\ CanAlloc
            /\ mem' = [mem EXCEPT ![nextId] = NewBuf(initial_capacity)]
            /\ nextId' = nextId + 1
            /\ bld' = [st |-> "live", owns |-> TRUE, var |-> 0, cell |-> nextId,
                       position |-> 0, top |-> 0]
            /\ Return("builder_new", 0, 0, 0, nextId, initial_capacity, 0, <<>>, 0)
            /\ UNCHANGED <<h, rdr, acq>>

\* The position a builder over the buffer b starts at.
StartPosition(b) == b.size

db_builder_from_buffer(s) ==
    /\ bld.st = "none"
    /\ IF h[s] = NULL THEN Stop("builder_from_buffer", s, 0, NULL, 0, 0, <<>>, "aborted")
       ELSE IF ~Live(h[s]) THEN Stop("builder_from_buffer", s, 0, h[s], 0, 0, <<>>, "ub")
       ELSE /\ bld' = [st |-> "live", owns |-> FALSE, var |-> s, cell |-> NULL,
                       position |-> StartPosition(mem[h[s]]),
                       top |-> Top(StartPosition(mem[h[s]]))]
            /\ Return("builder_from_buffer", s, 0, h[s], h[s], 0, 0, <<>>, 0)
            /\ UNCHANGED <<mem, nextId, h, rdr, acq>>

\* db_builder_finish; the caller keeps the returned handle in variable d (a
\* free variable, or the variable the builder was made from).
db_builder_finish(d) ==
    /\ bld.st = "live"
    /\ h[d] = NULL \/ (~bld.owns /\ d = bld.var)
    /\ h' = [h EXCEPT ![d] = BuilderBuf]
    /\ bld' = NoBuilder
    /\ Return("builder_finish", bld.var, d, BuilderBuf, BuilderBuf, bld.top, 0, <<>>,
              BuilderBuf)
    /\ UNCHANGED <<mem, nextId, rdr, acq>>

db_builder_seek(position) ==
    /\ bld.st = "live"
    /\ IF ~Live(BuilderBuf) THEN Stop("builder_seek", bld.var, 0, BuilderBuf, position, 0, <<>>, "ub")
       ELSE IF ~(position <= mem[BuilderBuf].size)
       THEN Stop("builder_seek", bld.var, 0, BuilderBuf, position, 0, <<>>, "aborted")
       ELSE /\ bld' = [bld EXCEPT !.position = position]
            /\ Return("builder_seek", bld.var, 0, BuilderBuf, BuilderBuf, position, 0, <<>>, 0)
            /\ UNCHANGED <<mem, nextId, h, rdr, acq>>

\* db_builder_ensure_space(builder, bytes) on the header and block b: the
\* result of db_reserve is not looked at, and the size is raised regardless.
EnsureSpaceOutcome(b, position, bytes) ==
    LET needed_size == AddW(position, bytes)
        r == IF needed_size > b.capacity THEN ReserveOutcome(b, needed_size)
             ELSE [kind |-> "ok", ret |-> 1, buf |-> b, realloc |-> FALSE]
    IN  IF r.kind = "ub" THEN r
        ELSE [r EXCEPT !.buf = IF needed_size > r.buf.size
                                THEN [r.buf EXCEPT !.size = needed_size]
                                ELSE r.buf]

\* A write that stores the bytes at the front of the buffer.
WriteOutcomeFront(b, position, bytes) ==
    LET e == EnsureSpaceOutcome(b, position, Len(bytes))
    IN  IF e.kind = "ub" THEN e
        ELSE IF position + Len(bytes) > Len(e.buf.data)
        THEN [kind |-> "ub", ret |-> -1, buf |-> e.buf, realloc |-> FALSE]
        ELSE [e EXCEPT !.buf = [e.buf EXCEPT !.data = WriteAt(@, 0, bytes)]]

\* A write of the byte string bytes at the builder's position: ensure space,
\* store the bytes, advance.
WriteOutcome(b, position, bytes) ==
    LET e == EnsureSpaceOutcome(b, position, Len(bytes))
    IN  IF e.kind = "ub" THEN e
        ELSE IF position + Len(bytes) > Len(e.buf.data)
        THEN [kind |-> "ub", ret |-> -1, buf |-> e.buf, realloc |-> FALSE]
        ELSE [e EXCEPT !.buf = [e.buf EXCEPT !.data = WriteAt(@, position, bytes)]]

\* The body the write calls share: ensure space for the bytes, store them at
\* the position, advance.  value is the argument the bytes were made of (0
\* where the bytes themselves are the argument).
BuilderWrite(op, bytes, value) ==
    /\ bld.st = "live"
    /\ Len(io) < MaxWrites
    /\ IF ~Live(BuilderBuf)
       THEN Stop(op, bld.var, 0, BuilderBuf, bld.position, value, bytes, "ub")
       ELSE LET out == WriteOutcome(mem[BuilderBuf], bld.position, bytes)
            IN  IF out.kind = "ub"
                THEN Stop(op, bld.var, 0, BuilderBuf, bld.position, value, bytes, "ub")
                ELSE \E mv \in MoveChoices(out.realloc) :
                        /\ mem' = MemAfter(BuilderBuf, out.buf, mv)
                        /\ nextId' = IF mv THEN nextId + 1 ELSE nextId
                        /\ acq' = AcqAfter(BuilderBuf, mv)
                        /\ h' = IF bld.owns THEN h
                                ELSE [h EXCEPT ![bld.var] = IdAfter(BuilderBuf, mv)]
                        /\ bld' = [bld EXCEPT
                                     !.cell = IF bld.owns THEN IdAfter(BuilderBuf, mv) ELSE @,
                                     !.position = AddW(@, Len(bytes)),
                                     !.top = Top(IF AddW(bld.position, Len(bytes)) > @
                                                 THEN AddW(bld.position, Len(bytes))
                                                 ELSE @)]
                        /\ ReturnIO(op, bld.var, 0, BuilderBuf, IdAfter(BuilderBuf, mv),
                                    bld.position, value, bytes, 0,
                                    Wrote(op, value, bytes, bld.position))
                        /\ UNCHANGED rdr

\* A write call that has nothing to write returns at once.
WriteNothing(op, value) ==
    /\ bld.st = "live"
    /\ Return(op, bld.var, 0, BuilderBuf, BuilderBuf, 0, value, <<>>, 0)
    /\ UNCHANGED <<mem, nextId, h, bld, rdr, acq>>

db_write_bytes(bytes) ==
    IF Len(bytes) = 0 THEN WriteNothing("write_bytes", 0)
    ELSE BuilderWrite("write_bytes", bytes, 0)

\* strlen: the number of chars before the first 0 of a terminated string.
StrLen(str) == (CHOOSE k \in 1..Len(str) : str[k] = 0 /\ \A j \in 1..(k - 1) : str[j] # 0) - 1

\* db_write_cstring(builder, str): db_write_bytes of the strlen(str) chars.
db_write_cstring(str) ==
    LET len == StrLen(str)
    IN  IF len = 0 THEN WriteNothing("write_cstring", str)
        ELSE BuilderWrite("write_cstring", SubSeq(str, 1, len), str)

\* A uint16_t, uint32_t or uint64_t value is kept as its 16-bit limbs, the
\* low limb first.  (value >> shift) & 0xFF, for a shift that is a multiple
\* of 8:
ByteOf(value, shift) == (value[shift \div 16 + 1] \div (2 ^ (shift % 16))) % 256

\* The bytes the write calls store at ptr[0], ptr[1], ...
BytesU16LE(value) == <<ByteOf(value, 0), ByteOf(value, 8)>>
BytesU16BE(value) == <<ByteOf(value, 8), ByteOf(value, 0)>>
BytesU32LE(value) ==
    <<ByteOf(value, 0), ByteOf(value, 8), ByteOf(value, 16), ByteOf(value, 24)>>
\* A big-endian store with the two middle bytes exchanged.
BytesU32BESwapped(value) ==
    <<ByteOf(value, 24), ByteOf(value, 8), ByteOf(value, 16), ByteOf(value, 0)>>
BytesU32BE(value) ==
    <<ByteOf(value, 24), ByteOf(value, 16), ByteOf(value, 8), ByteOf(value, 0)>>
BytesU64LE(value) ==
    <<ByteOf(value, 0), ByteOf(value, 8), ByteOf(value, 16), ByteOf(value, 24),
      ByteOf(value, 32), ByteOf(value, 40), ByteOf(value, 48), ByteOf(value, 56)>>
BytesU64BE(value) ==
    <<ByteOf(value, 56), ByteOf(value, 48), ByteOf(value, 40), ByteOf(value, 32),
      ByteOf(value, 24), ByteOf(value, 16), ByteOf(value, 8), ByteOf(value, 0)>>

db_write_uint8(value) ==
    /\ bld.st = "live"
    /\ BuilderWrite("write_uint8", <<value>>, value)
db_write_uint16_le(value) ==
    /\ bld.st = "live"
    /\ BuilderWrite("write_uint16_le", BytesU16LE(value), value)
db_write_uint16_be(value) ==
    /\ bld.st = "live"
    /\ BuilderWrite("write_uint16_be", BytesU16BE(value), value)
db_write_uint32_le(value) ==
    /\ bld.st = "live"
    /\ BuilderWrite("write_uint32_le", BytesU32LE(value), value)
db_write_uint32_be(value) ==
    /\ bld.st = "live"
    /\ BuilderWrite("write_uint32_be", BytesU32BE(value), value)
db_write_uint64_le(value) ==
    /\ bld.st = "live"
    /\ BuilderWrite("write_uint64_le", BytesU64LE(value), value)
db_write_uint64_be(value) ==
    /\ bld.st = "live"
    /\ BuilderWrite("write_uint64_be", BytesU64BE(value), value)

db_builder_position == bld.position

\* ---------------------------------------------------------------- reader
db_reader_new(s) ==
    /\ rdr.st = "none"
    /\ IF h[s] = NULL THEN Stop("reader_new", s, 0, NULL, 0, 0, <<>>, "aborted")
       ELSE IF ~Live(h[s]) THEN Stop("reader_new", s, 0, h[s], 0, 0, <<>>, "ub")
       ELSE /\ mem' = [mem EXCEPT ![h[s]].refcount = RefInc(@)]
            /\ acq' = [acq EXCEPT ![h[s]] = @ + 1]
            /\ rdr' = [st |-> "live", buf |-> h[s], position |-> 0]
            /\ Return("reader_new", s, 0, h[s], h[s], 0, 0, <<>>, 0)
            /\ UNCHANGED <<nextId, h, bld>>

\* A db_reader_free that keeps the buffer's reference.
ReaderFreeLeak ==
    IF rdr.st = "none"
    THEN /\ Return("reader_free", 0, 0, NULL, NULL, 0, 0, <<>>, 0)
         /\ UNCHANGED <<mem, nextId, h, bld, rdr, acq>>
    ELSE /\ rdr' = NoReader
         /\ Return("reader_free", 0, 0, rdr.buf, rdr.buf, 0, 0, <<>>, 0)
         /\ UNCHANGED <<mem, nextId, h, bld, acq>>

db_reader_free ==
    IF rdr.st = "none"
    THEN /\ Return("reader_free", 0, 0, NULL, NULL, 0, 0, <<>>, 0)
         /\ UNCHANGED <<mem, nextId, h, bld, rdr, acq>>
    ELSE IF ~Live(rdr.buf) THEN Stop("reader_free", 0, 0, rdr.buf, 0, 0, <<>>, "ub")
    ELSE /\ mem' = Released(rdr.buf)
         /\ acq' = [acq EXCEPT ![rdr.buf] = @ - 1]
         /\ rdr' = NoReader
         /\ Return("reader_free", 0, 0, rdr.buf, rdr.buf, 0, 0, <<>>, 0)
         /\ UNCHANGED <<nextId, h, bld>>

db_reader_position == rdr.position

db_reader_remaining ==
    LET buffer_size == mem[rdr.buf].size
    IN  IF rdr.position < buffer_size THEN buffer_size - rdr.position ELSE 0

\* A reader that lets every read through.
CanReadAlways(bytes) == TRUE

db_reader_can_read(bytes) == db_reader_remaining >= bytes

\* A seek that moves wherever it is told to.
ReaderSeekUnchecked(position) ==
    /\ rdr.st = "live"
    /\ rdr' = [rdr EXCEPT !.position = position]
    /\ Return("reader_seek", 0, 0, rdr.buf, rdr.buf, position, 0, <<>>, 0)
    /\ UNCHANGED <<mem, nextId, h, bld, acq>>

db_reader_seek(position) ==
    /\ rdr.st = "live"
    /\ IF ~Live(rdr.buf) THEN Stop("reader_seek", 0, 0, rdr.buf, position, 0, <<>>, "ub")
       ELSE IF ~(position <= mem[rdr.buf].size)
       THEN Stop("reader_seek", 0, 0, rdr.buf, position, 0, <<>>, "aborted")
       ELSE /\ rdr' = [rdr EXCEPT !.position = position]
            /\ Return("reader_seek", 0, 0, rdr.buf, rdr.buf, position, 0, <<>>, 0)
            /\ UNCHANGED <<mem, nextId, h, bld, acq>>

\* A limb that loses its high byte.
LimbLow(ptr, lo, hi) == ptr[lo]

\* ptr[lo] | (ptr[hi] << 8): one 16-bit limb of a value read.
Limb(ptr, lo, hi) == ptr[lo] + 256 * ptr[hi]

\* The values the read calls put together from ptr[0], ptr[1], ... (ptr[0]
\* is the first element).
ValueU8(ptr) == ptr[1]
ValueU16LE(ptr) == <<Limb(ptr, 1, 2)>>
ValueU16BE(ptr) == <<Limb(ptr, 2, 1)>>
ValueU32LE(ptr) == <<Limb(ptr, 1, 2), Limb(ptr, 3, 4)>>
ValueU32BE(ptr) == <<Limb(ptr, 4, 3), Limb(ptr, 2, 1)>>
ValueU64LE(ptr) == <<Limb(ptr, 1, 2), Limb(ptr, 3, 4), Limb(ptr, 5, 6), Limb(ptr, 7, 8)>>
ValueU64BE(ptr) == <<Limb(ptr, 8, 7), Limb(ptr, 6, 5), Limb(ptr, 4, 3), Limb(ptr, 2, 1)>>
ValueBytes(ptr) == ptr

\* reader->buf + reader->position: the n bytes a read call looks at.
ReaderPtr(n) == ReadAt(mem[rdr.buf].data, rdr.position, n)

\* The body the read calls share: assert that n bytes can be read, put the
\* value together from them, advance.  A value made of a byte never written
\* is indeterminate.
ReaderRead(op, n, value) ==
    /\ rdr.st = "live"
    /\ IF ~Live(rdr.buf) THEN Stop(op, 0, 0, rdr.buf, rdr.position, n, <<>>, "ub")
       ELSE IF ~db_reader_can_read(n)
       THEN Stop(op, 0, 0, rdr.buf, rdr.position, n, <<>>, "aborted")
       ELSE IF n > 0 /\ rdr.position + n > Len(mem[rdr.buf].data)
       THEN Stop(op, 0, 0, rdr.buf, rdr.position, n, <<>>, "ub")
       ELSE LET ptr == ReaderPtr(n)
            IN  /\ rdr' = [rdr EXCEPT !.position = AddW(@, n)]
                /\ Return(op, 0, 0, rdr.buf, rdr.buf, rdr.position, n, ptr,
                          IF \E k \in 1..n : ptr[k] = Uninit THEN Uninit ELSE value)
                /\ UNCHANGED <<mem, nextId, h, bld, acq>>

db_read_uint8 ==
    /\ rdr.st = "live"
    /\ ReaderRead("read_uint8", 1, ValueU8(ReaderPtr(1)))
db_read_uint16_le ==
    /\ rdr.st = "live"
    /\ ReaderRead("read_uint16_le", 2, ValueU16LE(ReaderPtr(2)))
db_read_uint16_be ==
    /\ rdr.st = "live"
    /\ ReaderRead("read_uint16_be", 2, ValueU16BE(ReaderPtr(2)))
db_read_uint32_le ==
    /\ rdr.st = "live"
    /\ ReaderRead("read_uint32_le", 4, ValueU32LE(ReaderPtr(4)))
db_read_uint32_be ==
    /\ rdr.st = "live"
    /\ ReaderRead("read_uint32_be", 4, ValueU32BE(ReaderPtr(4)))
db_read_uint64_le ==
    /\ rdr.st = "live"
    /\ ReaderRead("read_uint64_le", 8, ValueU64LE(ReaderPtr(8)))
db_read_uint64_be ==
    /\ rdr.st = "live"
    /\ ReaderRead("read_uint64_be", 8, ValueU64BE(ReaderPtr(8)))
db_read_bytes(size) ==
    /\ rdr.st = "live"
    /\ ReaderRead("read_bytes", size, ValueBytes(ReaderPtr(size)))

\* ------------------------------------------------------------------- hex
\* hex_chars: "0123456789ABCDEF" or "0123456789abcdef", as character codes.
HexChars(uppercase) ==
    [k \in 1..16 |-> IF k <= 10 THEN 47 + k
                     ELSE IF uppercase THEN 54 + k ELSE 86 + k]

\* The loop of db_to_hex over the first size bytes of data: two characters
\* for a byte, the high four bits first.
HexText(data, size, uppercase) ==
    [k \in 1..(2 * size) |->
        LET byte == ReadAt(data, 0, size)[(k + 1) \div 2]
        IN  IF byte = Uninit THEN Uninit
            ELSE IF k % 2 = 1 THEN HexChars(uppercase)[(byte \div 16) + 1]
            ELSE HexChars(uppercase)[(byte % 16) + 1]]

\* db_to_hex on the header and block b: the buffer it returns.
ToHexOutcome(b, uppercase) ==
    IF b.size = 0
    THEN [kind |-> IF CreateOk(0) THEN "ok" ELSE "aborted", buf |-> NewBufWith(0, <<>>)]
    ELSE LET hex_size == MulW(b.size, 2)
         IN  IF ~CreateOk(hex_size) THEN [kind |-> "aborted", buf |-> NoBuf]
             ELSE IF 2 * b.size > Storage(hex_size) THEN [kind |-> "ub", buf |-> NoBuf]
             ELSE [kind |-> "ok",
                   buf |-> [NewBuf(hex_size) EXCEPT
                              !.data = WriteAt(@, 0, HexText(b.data, b.size, uppercase)),
                              !.size = hex_size]]

\* db_to_hex(h[s], uppercase); the result goes to variable d.
db_to_hex(s, d, uppercase) ==
    /\ h[d] = NULL
    /\ Len(io) < MaxWrites
    /\ LET flag == IF uppercase THEN 1 ELSE 0
       IN  IF h[s] = NULL THEN Stop("to_hex", s, d, NULL, flag, 0, <<>>, "aborted")
           ELSE IF ~Live(h[s]) THEN Stop("to_hex", s, d, h[s], flag, 0, <<>>, "ub")
           ELSE LET out == ToHexOutcome(mem[h[s]], uppercase)
                    src == Bytes(mem[h[s]])
                IN  IF out.kind # "ok"
                    THEN Stop("to_hex", s, d, h[s], flag, 0, src, out.kind)
                    ELSE /\ CanAlloc
                         /\ mem' = [mem EXCEPT ![nextId] = out.buf]
                         /\ nextId' = nextId + 1
                         /\ h' = [h EXCEPT ![d] = nextId]
                         /\ ReturnIO("to_hex", s, d, h[s], nextId, flag, 0, src, nextId,
                                     Wrote("to_hex", src, Bytes(out.buf), flag))
                         /\ UNCHANGED <<bld, rdr, acq>>

\* A hex_char_to_value that knows no small letters.
HexValueNoLower(c) ==
    IF c >= 48 /\ c <= 57 THEN c - 48
    ELSE IF c >= 65 /\ c <= 70 THEN c - 65 + 10
    ELSE -1

\* hex_char_to_value: '0' is 48, 'A' is 65, 'a' is 97.
hex_char_to_value(c) ==
    IF c >= 48 /\ c <= 57 THEN c - 48
    ELSE IF c >= 65 /\ c <= 70 THEN c - 65 + 10
    ELSE IF c >= 97 /\ c <= 102 THEN c - 97 + 10
    ELSE -1

\* The argument hex_string of db_from_hex: NULL, or the address of storage
\* that holds the characters chars.
NullString == [null |-> TRUE, chars |-> <<>>]
Str(chars) == [null |-> FALSE, chars |-> chars]

\* db_from_hex(hex_string, length): the outcomes it can have.  NULL without
\* an allocation (hex_string is NULL, or the length is odd); otherwise the
\* buffer is made and the pairs of characters are read in turn, both
\* characters of a pair before they are tested: NULL after the buffer made
\* was released (a character that is no hex digit), or the buffer of the
\* bytes.  A character of the length given that lies outside the storage is
\* read from outside it: that read may end the program, and what it gives
\* is indeterminate.  An indeterminate character may or may not be a hex
\* digit, and the byte made of it is indeterminate.
FromHexOutcome(hex_string, length) ==
    IF hex_string.null \/ length % 2 # 0
    THEN {[kind |-> "null", alloc |-> FALSE, buf |-> NoBuf]}
    ELSE LET byte_length == length \div 2
             str == ReadAt(hex_string.chars, 0, length)
             inside == Len(hex_string.chars)
             open(i) == str[2 * i - 1] = Uninit \/ str[2 * i] = Uninit
             high(i) == hex_char_to_value(str[2 * i - 1])
             low(i) == hex_char_to_value(str[2 * i])
             bad(i) == \/ str[2 * i - 1] # Uninit /\ high(i) < 0
                       \/ str[2 * i] # Uninit /\ low(i) < 0
             \* The pairs read: up to the first with a character that is
             \* known to be no hex digit.
             read(i) == \A j \in 1..(i - 1) : ~bad(j)
             freed == [kind |-> "null", alloc |-> TRUE, buf |-> FreedBuf]
             fault == [kind |-> "ub", alloc |-> FALSE, buf |-> NoBuf]
             made == [kind |-> "ok", alloc |-> TRUE,
                      buf |-> [NewBuf(byte_length) EXCEPT
                                 !.data = WriteAt(@, 0, [i \in 1..byte_length |->
                                             IF open(i) THEN Uninit
                                             ELSE (high(i) * 16 + low(i)) % 256]),
                                 !.size = byte_length]]
         IN  IF ~CreateOk(byte_length)
             THEN {[kind |-> "aborted", alloc |-> FALSE, buf |-> NoBuf]}
             ELSE (IF \E i \in 1..byte_length : read(i) /\ 2 * i > inside
                   THEN {fault} ELSE {})
                  \cup
                  (IF \E i \in 1..byte_length : bad(i) THEN {freed}
                   ELSE IF \E i \in 1..byte_length : open(i) THEN {freed, made}
                   ELSE {made})

\* db_from_hex(hex_string, length) or, where s is not 0, db_from_hex(h[s],
\* db_size(h[s])) on the text in the caller's buffer, whatever its block
\* holds of it; the result goes to variable d.  The call is recorded with
\* the characters of the length given that the storage holds.
db_from_hex(d, s, hex_string, length) ==
    /\ h[d] = NULL
    /\ s # 0 => Live(h[s])
    /\ LET string == IF s = 0 THEN hex_string ELSE Str(mem[h[s]].data)
           len == IF s = 0 THEN length ELSE mem[h[s]].size
           held == IF len <= Len(string.chars) THEN len ELSE Len(string.chars)
           str == SubSeq(string.chars, 1, held)
           null == IF string.null THEN 1 ELSE 0
       IN  \E out \in FromHexOutcome(string, len) :
           IF out.kind \in {"aborted", "ub"}
           THEN Stop("from_hex", 0, d, 0, len, null, str, out.kind)
           ELSE IF ~out.alloc
           THEN /\ Return("from_hex", 0, d, 0, NULL, len, null, str, NULL)
                /\ UNCHANGED <<mem, nextId, h, bld, rdr, acq>>
           ELSE /\ CanAlloc
                /\ mem' = [mem EXCEPT ![nextId] = out.buf]
                /\ nextId' = nextId + 1
                /\ h' = IF out.kind = "ok" THEN [h EXCEPT ![d] = nextId] ELSE h
                /\ Return("from_hex", 0, d, 0, nextId, len, null, str,
                          IF out.kind = "ok" THEN nextId ELSE NULL)
                /\ UNCHANGED <<bld, rdr, acq>>

\* --------------------------------------------------------------- threads
\* A step of a thread: it changes the shared buffer's block and the thread.
ThreadStep(newmem, newthr) ==
    /\ status = "running"
    /\ mem' = newmem
    /\ thr' = newthr
    /\ UNCHANGED <<nextId, h, bld, rdr, status, acq, last, watch, quota, room, io>>

\* A step of a thread that uses a block that has been freed.
ThreadFault ==
    /\ status = "running"
    /\ status' = "ub"
    /\ UNCHANGED <<mem, nextId, h, bld, rdr, acq, last, watch, quota, room, io, thr>>

\* A build whose counter is never updated in one step.
NeverIndivisible(atomic) == FALSE

\* #if DB_ATOMIC_REFCOUNT: atomic_fetch_add and atomic_fetch_sub read and
\* write the counter in one step; ++(*ptr) and --(*ptr) on a plain int read
\* it and then write it.
Indivisible(atomic) == atomic

\* The first thread is given the handle in the caller's variable s.
hand_over(s, t) ==
    /\ h[s] # NULL /\ thr.buf = NULL
    /\ h' = [h EXCEPT ![s] = NULL]
    /\ thr' = [thr EXCEPT !.buf = h[s], !.held[t] = 1]
    /\ status = "running"
    /\ UNCHANGED <<mem, nextId, bld, rdr, status, acq, last, watch, quota, room, io>>

\* Thread t gives one of its handles to thread u.
pass_on(t, u) ==
    /\ t # u /\ thr.pc[t] = "idle" /\ thr.held[t] >= 1
    /\ ThreadStep(mem, [thr EXCEPT !.held[t] = @ - 1, !.held[u] = @ + 1])

\* db_retain in thread t on a handle it holds: DB_REFCOUNT_INCREMENT, or
\* its read of the counter.
thread_retain(t) ==
    /\ thr.pc[t] = "idle" /\ thr.held[t] >= 1
    /\ thr.retains + Cardinality({u \in Threads : thr.pc[u] = "inc"}) < MaxRetains
    /\ IF ~Live(thr.buf) THEN ThreadFault
       ELSE IF Indivisible(thr.atomic)
       THEN ThreadStep([mem EXCEPT ![thr.buf].refcount = RefInc(@)],
                       [thr EXCEPT !.held[t] = @ + 1, !.retains = @ + 1])
       ELSE ThreadStep(mem, [thr EXCEPT !.tmp[t] = mem[thr.buf].refcount,
                                        !.pc[t] = "inc"])

\* ++(*ptr): the write of the counter, and the return of db_retain.
thread_retain_store(t) ==
    /\ thr.pc[t] = "inc"
    /\ IF ~Live(thr.buf) THEN ThreadFault
       ELSE ThreadStep([mem EXCEPT ![thr.buf].refcount = RefInc(thr.tmp[t])],
                       [thr EXCEPT !.pc[t] = "idle", !.held[t] = @ + 1,
                                   !.retains = @ + 1])

\* db_release in thread t on a handle it holds: the handle is set to NULL,
\* then DB_REFCOUNT_DECREMENT, or its read of the counter.
thread_release(t) ==
    /\ thr.pc[t] = "idle" /\ thr.held[t] >= 1
    /\ IF ~Live(thr.buf) THEN ThreadFault
       ELSE IF Indivisible(thr.atomic)
       THEN ThreadStep([mem EXCEPT ![thr.buf].refcount = RefDec(@)],
                       [thr EXCEPT !.held[t] = @ - 1, !.releases = @ + 1,
                                   !.tmp[t] = RefDec(mem[thr.buf].refcount),
                                   !.pc[t] = "test"])
       ELSE ThreadStep(mem, [thr EXCEPT !.held[t] = @ - 1,
                                        !.tmp[t] = mem[thr.buf].refcount,
                                        !.pc[t] = "dec"])

\* --(*ptr): the write of the counter.
thread_release_store(t) ==
    /\ thr.pc[t] = "dec"
    /\ IF ~Live(thr.buf) THEN ThreadFault
       ELSE ThreadStep([mem EXCEPT ![thr.buf].refcount = RefDec(thr.tmp[t])],
                       [thr EXCEPT !.tmp[t] = RefDec(@), !.releases = @ + 1,
                                   !.pc[t] = "test"])

\* The test of the decremented count, and db_internal_free when it is 0.
\* atomic_fetch_sub has returned the count that is tested.  With the plain
\* int the count tested is the one the thread has in hand or the one it
\* reads from the counter once more after its store, as the build has it;
\* that read is one of freed storage when the block is gone.
thread_release_end(t) ==
    /\ thr.pc[t] = "test"
    /\ LET again == IF Indivisible(thr.atomic) \/ ~Live(thr.buf) THEN {}
                    ELSE {mem[thr.buf].refcount}
       IN  \/ \E count \in {thr.tmp[t]} \cup again :
                IF count # 0
                THEN ThreadStep(mem, [thr EXCEPT !.pc[t] = "idle"])
                ELSE IF ~Live(thr.buf) THEN ThreadFault
                ELSE ThreadStep([mem EXCEPT ![thr.buf] = FreedBuf],
                                [thr EXCEPT !.pc[t] = "idle", !.frees = @ + 1])
           \/ /\ ~Indivisible(thr.atomic) /\ ~Live(thr.buf)
              /\ ThreadFault

\* ---------------------------------------------------------- the program
\* Calls on buffers alone.
BufferCall ==
    \/ \E d \in Vars, c \in CapVals : db_new(d, c)
    \/ \E d \in Vars, x \in DataVals : db_new_with_data(d, x)
    \/ \E s \in Vars, d \in Vars : db_retain(s, d)
    \/ \E s \in Vars : db_release(s)
    \/ \E s \in Vars, d \in Vars, o \in OffVals, l \in OffVals : db_slice(s, d, o, l)
    \/ \E s \in Vars, d \in Vars, o \in OffVals : db_slice_from(s, d, o)
    \/ \E s \in Vars, d \in Vars, l \in OffVals : db_slice_to(s, d, l)
    \/ \E s \in Vars, n \in SizeVals : db_resize(s, n)
    \/ \E s \in Vars, n \in SizeVals : db_reserve(s, n)
    \/ \E s \in Vars, x \in DataVals : db_append(s, x)
    \/ \E s \in Vars : db_clear(s)

\* Calls on the builder and the reader.
CursorCall ==
    \/ \E c \in CapVals : db_builder_new(c)
    \/ \E s \in Vars : db_builder_from_buffer(s)
    \/ \E d \in Vars : db_builder_finish(d)
    \/ \E p \in PosVals : db_builder_seek(p)
    \/ \E x \in DataVals : db_write_bytes(x)
    \/ \E s \in Vars : db_reader_new(s)
    \/ db_reader_free

\* Reads from a descriptor and from a file.
FileCall ==
    \/ \E fd \in {-1, 0}, n \in 0..MaxData : db_read_fd(1, fd, n)
    \/ \E open \in BOOLEAN, x \in {<<>>} \cup ByteVals : db_read_fd_return(open, x)
    \/ \E d \in Vars, file \in {"none", "unsized", "plain"}, x \in DataVals,
          n \in {0, MaxData} :
            db_read_file(d, file, x, n)

\* Appends of a single byte.
ByteAppend == \E s \in Vars, x \in ByteVals : db_append(s, x)

\* Calls that hand the caller's own allocations to the library, and calls on
\* the buffers made of them.
OwnedCall ==
    \/ \E d \in Vars, x \in DataVals \cup ByteVals : owned_data(d, x)
    \/ \E s \in 0..NH, d \in Vars, n \in 0..MaxData, c \in CapVals \cup {1} :
            db_new_from_owned_data(s, d, n, c)
    \/ \E s \in Vars, d \in Vars : db_retain(s, d)
    \/ \E s \in Vars : db_release(s)
    \/ \E s \in Vars, x \in ByteVals : db_append(s, x)
    \/ \E s \in Vars : db_clear(s)

\* The arrays given to db_concat_many, and the byte strings the operands are
\* made of.
ArrayVals ==
    {NoArray} \cup {Array(vs) : vs \in {<<>>, <<1, 0, 2>>, <<2, 0, 1>>}}
        \cup {Array(<<a, b>>) : a \in 0..NH, b \in 0..NH}
PartVals == {<<>>, <<1>>, <<2>>, <<1, 2>>}

\* Calls that combine and compare buffers, and calls that make the buffers.
CombineCall ==
    \/ \E d \in Vars, x \in PartVals : db_new_with_data(d, x)
    \/ \E s \in Vars, n \in {1, SIZE_MOD \div 2 + 1} : db_resize(s, n)
    \/ \E s \in Vars : db_retain(s, ResultVar)
    \/ db_release(ResultVar)
    \/ \E a \in 0..NH, b \in 0..NH : db_concat(a, b)
    \/ \E bs \in ArrayVals, n \in 0..3 : db_concat_many(bs, n)
    \/ \E a \in 0..NH, b \in 0..NH : db_equals(a, b)

\* The byte strings the compared buffers are made of.
OrderVals == {<<>>, <<1>>, <<200>>, <<1, 200>>}

\* Calls that order buffers, and calls that make the buffers.
OrderCall ==
    \/ \E d \in AllVars, x \in OrderVals : db_new_with_data(d, x)
    \/ \E n \in {MaxData} : db_resize(1, n)
    \/ \E a \in 0..ResultVar, b \in 0..ResultVar : db_compare(a, b)
    \/ \E a \in 0..ResultVar, b \in 0..ResultVar : db_equals(a, b)

\* The values written through the builder: 0x42, 0x1234, 0x12345678 and
\* 0xF2345678, 0x0123456789ABCDEF, two byte runs and the string "T".
U8Vals == {66}
U16Vals == {<<4660>>}
U32Vals == {<<22136, 4660>>, <<22136, 62004>>}
U64Vals == {<<52719, 35243, 17767, 291>>}
RunVals == {<<7>>, <<8, 9>>}
StrVals == {<<84, 0>>}

\* A caller that encodes values with one builder and decodes them with
\* readers.
TypedCall ==
    \/ \E c \in {0, TypedRoom} : db_builder_new(c)
    \/ \E v \in U8Vals : db_write_uint8(v)
    \/ \E v \in U16Vals : db_write_uint16_le(v)
    \/ \E v \in U16Vals : db_write_uint16_be(v)
    \/ \E v \in U32Vals : db_write_uint32_le(v)
    \/ \E v \in U32Vals : db_write_uint32_be(v)
    \/ \E v \in U64Vals : db_write_uint64_le(v)
    \/ \E v \in U64Vals : db_write_uint64_be(v)
    \/ \E x \in RunVals : db_write_bytes(x)
    \/ \E x \in StrVals : db_write_cstring(x)
    \/ db_builder_finish(1)
    \/ db_reader_new(1)
    \/ db_read_uint8
    \/ db_read_uint16_le
    \/ db_read_uint16_be
    \/ db_read_uint32_le
    \/ db_read_uint32_be
    \/ db_read_uint64_le
    \/ db_read_uint64_be
    \/ \E n \in 1..2 : db_read_bytes(n)
    \/ db_reader_free

\* The strings written where positions are looked at: "", and one char.
TextVals == {<<0>>, <<3, 0>>}

\* A caller that writes through a builder over buffers it also holds.
WriteCall ==
    \/ \E x \in DataVals : db_new_with_data(1, x)
    \/ db_retain(1, 2)
    \/ \E s \in Vars : db_release(s)
    \/ db_clear(1)
    \/ \E c \in {0, MaxData} : db_builder_new(c)
    \/ db_builder_from_buffer(1)
    \/ db_builder_finish(1)
    \/ \E p \in 0..MaxData : db_builder_seek(p)
    \/ \E x \in DataVals : db_write_bytes(x)
    \/ \E x \in TextVals : db_write_cstring(x)

\* A caller that reads through a reader over buffers it also holds.
ReadCall ==
    \/ \E x \in DataVals \cup ByteVals : db_new_with_data(1, x)
    \/ db_retain(1, 2)
    \/ \E s \in Vars : db_release(s)
    \/ db_reader_new(1)
    \/ \E p \in 0..(MaxData + 1) : db_reader_seek(p)
    \/ db_read_uint8
    \/ \E n \in 0..MaxData : db_read_bytes(n)
    \/ db_reader_free

\* A caller that moves a builder and a reader about.
SeekCall ==
    \/ \E x \in DataVals \cup ByteVals : db_new_with_data(1, x)
    \/ db_release(1)
    \/ \E c \in {0, MaxData} : db_builder_new(c)
    \/ db_builder_from_buffer(1)
    \/ db_builder_finish(1)
    \/ \E p \in 0..(MaxData + 1) : db_builder_seek(p)
    \/ \E x \in DataVals : db_write_bytes(x)
    \/ db_reader_new(1)
    \/ \E p \in 0..(MaxData + 1) : db_reader_seek(p)
    \/ db_reader_free

\* A caller that reads a buffer through a reader while it changes the buffer
\* through its own handles and through a builder.
SharedCall ==
    \/ \E x \in DataVals : db_new_with_data(1, x)
    \/ \E s \in Vars : db_release(s)
    \/ \E s \in Vars : db_clear(s)
    \/ \E n \in {0, 1} : db_resize(1, n)
    \/ \E x \in ByteVals : db_append(1, x)
    \/ db_builder_from_buffer(1)
    \/ db_builder_finish(2)
    \/ \E x \in DataVals : db_write_bytes(x)
    \/ db_reader_new(1)
    \/ \E p \in 0..MaxData : db_reader_seek(p)
    \/ db_read_uint8
    \/ db_reader_free

\* A caller that uses buffers only.
\* A caller that makes a buffer and leaves it to its threads.
ThreadCall ==
    \/ \E x \in DataVals : db_new_with_data(1, x)
    \/ hand_over(1, 1)
    \/ \E t \in Threads, u \in Threads : pass_on(t, u)
    \/ \E t \in Threads : thread_retain(t)
    \/ \E t \in Threads : thread_retain_store(t)
    \/ \E t \in Threads : thread_release(t)
    \/ \E t \in Threads : thread_release_store(t)
    \/ \E t \in Threads : thread_release_end(t)

NextThreads == ThreadCall

\* The bytes turned into hex: none, AB, and 01 EF.
HexByteVals == {<<>>, <<171>>, <<1, 239>>}
\* Strings that are no hex: "4", "G", "4G", "/0", "41@0"; and "aB".  Each
\* is given with its length, and with a length that is one more.
HexTextVals ==
    {<<52>>, <<71>>, <<52, 71>>, <<47, 48>>, <<52, 49, 64, 48>>, <<97, 66>>}

\* A caller that turns buffers into hex and hex into buffers: strings of its
\* own, and the text of the buffers it holds, resized or not.
HexCall ==
    \/ \E x \in HexByteVals : db_new_with_data(1, x)
    \/ \E u \in BOOLEAN : db_to_hex(1, 2, u)
    \/ \E str \in HexTextVals, n \in {0, 1} :
            db_from_hex(ResultVar, 0, Str(str), Len(str) + n)
    \/ \E n \in {0, MaxData} : db_from_hex(ResultVar, 0, NullString, n)
    \/ \E s \in Vars : db_from_hex(ResultVar, s, NullString, 0)
    \/ \E n \in {MaxData, SIZE_MOD \div 2 + 1} : db_resize(1, n)
    \/ \E s \in AllVars : db_release(s)

NextHex == HexCall

\* A caller that reserves room in a buffer.
ReserveCall ==
    \/ \E c \in {0, MaxData} : db_new(1, c)
    \/ \E x \in DataVals : db_new_with_data(1, x)
    \/ db_retain(1, 2)
    \/ \E s \in Vars : db_release(s)
    \/ \E n \in {0, 1, MaxData + 1, SIZE_MAX} : db_reserve(1, n)
    \/ \E x \in ByteVals : db_append(1, x)

NextReserve == ReserveCall \/ FileCall

NextBuffers == BufferCall
\* A caller that reads a buffer it also changes.
NextShared == SharedCall
\* A caller that encodes and decodes values.
NextTyped == TypedCall
\* A caller that writes through a builder.
NextWrite == WriteCall
\* A caller that reads through a reader.
NextRead == ReadCall
\* A caller that moves a builder and a reader about.
NextSeek == SeekCall
\* A caller that orders buffers.
NextOrder == OrderCall
\* A caller that combines and compares buffers.
NextCombine == CombineCall
\* A caller that builds buffers from its own allocations.
NextOwned == OwnedCall
\* A caller that uses buffers only, and also appends single bytes.
NextModify == BufferCall \/ ByteAppend
\* A caller that uses buffers, a builder and a reader.
Next == BufferCall \/ CursorCall

\* The specifications differ in the calls they record in last.
BufferOps == {"new", "new_with_data", "retain", "release", "slice", "slice_from",
              "slice_to", "resize", "reserve", "append", "clear"}
ModifyOps == {"resize", "reserve", "append", "clear"}
LifecycleOps == {"new", "retain", "release"}
BuilderOps == {"builder_from_buffer", "builder_finish", "write_bytes"}

\* Buffers alone, every call recorded.
InitBuffers == Base /\ watch = BufferOps /\ quota = MaxAllocs /\ room = MaxData
SpecBuffers == InitBuffers /\ [][NextBuffers]_vars
\* Buffers alone, with single-byte appends; the modifications recorded.
InitModify == Base /\ watch = ModifyOps /\ quota = MaxAllocs /\ room = MaxData
SpecModify == InitModify /\ [][NextModify]_vars
\* Buffers made of the caller's allocations; their creation recorded.
OwnedOps == {"new_from_owned_data"}
InitOwned == Base /\ watch = OwnedOps /\ quota = MaxAllocs + 1 /\ room = MaxData
SpecOwned == InitOwned /\ [][NextOwned]_vars
\* Buffers combined and compared; the combinations and comparisons recorded.
CombineOps == {"concat", "concat_many", "equals"}
InitCombine == Base /\ watch = CombineOps /\ quota = MaxAllocs + 1 /\ room = MaxData
SpecCombine == InitCombine /\ [][NextCombine]_vars
\* Buffers ordered; the comparisons recorded.
OrderOps == {"compare"}
InitOrder == Base /\ watch = OrderOps /\ quota = MaxAllocs + 1 /\ room = MaxData
SpecOrder == InitOrder /\ [][NextOrder]_vars
\* Values encoded and decoded; the writes logged, the writes and reads
\* recorded.
TypedOps == {"log", "write_uint8", "write_uint16_le", "write_uint16_be",
             "write_uint32_le", "write_uint32_be", "write_uint64_le",
             "write_uint64_be", "write_bytes", "write_cstring", "read_uint8",
             "read_uint16_le", "read_uint16_be", "read_uint32_le", "read_uint32_be",
             "read_uint64_le", "read_uint64_be", "read_bytes"}
InitTyped == Base /\ watch = TypedOps /\ quota = 1 /\ room = TypedRoom
SpecTyped == InitTyped /\ [][NextTyped]_vars
\* A builder written through; its calls recorded, its top kept.
WriteOps == {"top", "builder_new", "builder_from_buffer", "builder_finish",
             "write_bytes", "write_cstring"}
InitWrite == Base /\ watch = WriteOps /\ quota = MaxAllocs /\ room = MaxData
SpecWrite == InitWrite /\ [][NextWrite]_vars
\* A reader read through; its calls recorded.
ReadOps == {"reader_new", "reader_free", "reader_seek", "read_uint8", "read_bytes"}
InitRead == Base /\ watch = ReadOps /\ quota = MaxAllocs /\ room = MaxData
SpecRead == InitRead /\ [][NextRead]_vars
\* Builder and reader moved about; the seeks recorded.
SeekOps == {"builder_seek", "reader_seek"}
InitSeek == Base /\ watch = SeekOps /\ quota = MaxAllocs /\ room = MaxData
SpecSeek == InitSeek /\ [][NextSeek]_vars
\* A buffer read and changed; nothing recorded.
\* The threads, in a build with and in a build without DB_ATOMIC_REFCOUNT.
InitThreads ==
    /\ Single /\ watch = {} /\ quota = 1 /\ room = MaxData
    /\ \E a \in BOOLEAN : thr = [NoThreads EXCEPT !.atomic = a]
SpecThreads == InitThreads /\ [][NextThreads]_vars

\* Reserving, with an allocator that gives twice the usual room.
InitReserve ==
    Base /\ watch = {"reserve"} /\ quota = MaxAllocs + 1 /\ room = 2 * MaxData
SpecReserve == InitReserve /\ [][NextReserve]_vars

\* Hex, with an allocator that has room for the text of MaxData bytes.
InitHex ==
    Base /\ watch = {"log", "to_hex", "from_hex"} /\ quota = MaxAllocs + 1
         /\ room = 2 * MaxData
SpecHex == InitHex /\ [][NextHex]_vars

InitShared == Base /\ watch = {} /\ quota = MaxAllocs /\ room = MaxData
SpecShared == InitShared /\ [][NextShared]_vars
\* Buffers, builder and reader; creation, retain and release recorded.
InitLifecycle == Base /\ watch = LifecycleOps /\ quota = MaxAllocs - 1 /\ room = MaxData
SpecLifecycle == InitLifecycle /\ [][Next]_vars
\* Buffers, builder and reader; the builder's calls recorded.
InitBuilder == Base /\ watch = BuilderOps /\ quota = MaxAllocs - 1 /\ room = MaxData
SpecBuilder == InitBuilder /\ [][Next]_vars

\* ================================================================ claims
\* The buffer a recorded call was applied to was live when the call was made.
OnLive == last.pre.st = "live"

\* ---------------------------------------------------------------- C1
\* C1 (as stated): on a buffer whose refcount is >= 2, db_resize, db_reserve,
\* db_append and db_clear return false for every argument and leave the
\* buffer's size, capacity, refcount and bytes unchanged.
MutationGuard ==
    (last.op \in ModifyOps /\ OnLive /\ last.pre.refcount >= 2) =>
        /\ status = "running"
        /\ last.ret = 0
        /\ last.cur = last.tgt
        /\ h[last.hv] = last.tgt
        /\ mem[last.tgt] = last.pre

\* The arguments with which the call has nothing to do.
NothingToDo ==
    \/ last.op = "reserve" /\ last.a1 <= last.pre.capacity
    \/ last.op = "append" /\ Len(last.dat) = 0

\* C1 (amended): on a buffer whose refcount is >= 2 the four calls leave the
\* buffer's size, capacity, refcount and bytes unchanged, and return false,
\* except db_reserve with min_capacity <= capacity and db_append of zero
\* bytes, which return true.
MutationGuardAmended ==
    (last.op \in ModifyOps /\ OnLive /\ last.pre.refcount >= 2) =>
        /\ status = "running"
        /\ last.ret = IF NothingToDo THEN 1 ELSE 0
        /\ last.cur = last.tgt
        /\ h[last.hv] = last.tgt
        /\ mem[last.tgt] = last.pre

\* A non-empty append to a buffer held twice has been refused.
MutationGuardWitness ==
    /\ last.op = "append" /\ OnLive /\ last.pre.refcount = 2
    /\ Len(last.dat) > 0 /\ last.ret = 0

\* ---------------------------------------------------------------- C2
\* The size, capacity or bytes of the buffer the recorded call was applied to
\* have changed.
Mutated ==
    /\ OnLive /\ Live(last.cur)
    /\ \/ mem[last.cur].size # last.pre.size
       \/ mem[last.cur].capacity # last.pre.capacity
       \/ mem[last.cur].data # last.pre.data

\* C2: a call changes a buffer's size, capacity or bytes only when the
\* buffer's refcount is exactly 1 at the time of the call (builder writes
\* included).
ExclusiveMutation ==
    (last.op \in ModifyOps \cup {"write_bytes"} /\ Mutated) => last.pre.refcount = 1

\* ---------------------------------------------------------------- C3
\* C3: every live buffer satisfies size <= capacity.
CapacityGeSize ==
    \A p \in Ids : mem[p].st = "live" => db_size(mem[p]) <= db_capacity(mem[p])

\* ---------------------------------------------------------------- C4
\* The live handles to block p: the caller's variables, the reader's
\* reference, and the cell of a builder made by db_builder_new.
Handles(p) ==
    Cardinality({v \in Vars : h[v] = p})
    + (IF rdr.st = "live" /\ rdr.buf = p THEN 1 ELSE 0)
    + (IF bld.st = "live" /\ bld.owns /\ bld.cell = p THEN 1 ELSE 0)

\* C4: each live buffer's refcount is >= 1 and equals the number of live
\* handles referring to it.
RefcountTracksHandles ==
    \A p \in Ids : mem[p].st = "live" =>
        db_refcount(mem[p]) >= 1 /\ db_refcount(mem[p]) = Handles(p)

\* ---------------------------------------------------------------- C5
\* A db_retain that returns: NULL in, NULL out and nothing changes; otherwise
\* the same handle comes back, the refcount is one higher, and nothing else
\* in the heap changes.
RetainStep ==
    (last'.op = "retain" /\ status' = "running") =>
        IF last'.tgt = NULL
        THEN last'.ret = NULL /\ mem' = mem /\ h' = h
        ELSE /\ mem[last'.tgt].st = "live"
             /\ last'.ret = last'.tgt
             /\ h' = [h EXCEPT ![last'.dst] = last'.tgt]
             /\ mem' = [mem EXCEPT ![last'.tgt].refcount = mem[last'.tgt].refcount + 1]

\* After any number of retains and releases a live buffer's refcount is its
\* initial 1 plus the retains minus the releases; so k retains followed by k
\* releases restore it, and the buffer is still live.
RefcountBalance ==
    \A p \in Ids : mem'[p].st = "live" =>
        db_refcount(mem'[p]) = 1 + acq'[p] /\ db_refcount(mem'[p]) >= 1

\* C5: db_retain on a live buffer adds exactly 1 to the refcount, returns the
\* same handle and changes neither size, capacity nor bytes; db_retain(NULL)
\* is a no-op returning NULL; k retains followed by k releases restore the
\* refcount, with the buffer still live.
RetainContract == [][RetainStep /\ RefcountBalance]_vars

\* A retain has been undone by a release: the refcount is back at 1.
RetainWitness ==
    /\ last.op = "release" /\ OnLive /\ last.pre.refcount = 2
    /\ Live(last.tgt) /\ db_refcount(mem[last.tgt]) = 1 /\ acq[last.tgt] = 0

\* ---------------------------------------------------------------- C6
\* C6: db_release on a variable holding a handle to a live buffer takes
\* exactly 1 from the refcount, sets the variable to NULL, and frees the
\* storage if and only if the refcount reached 0; on a variable holding NULL
\* it is a no-op (so a second release of the same variable changes nothing).
ReleaseStep ==
    last'.op = "release" =>
        IF last'.tgt = NULL
        THEN status' = "running" /\ h[last'.hv] = NULL /\ mem' = mem /\ h' = h
        ELSE mem[last'.tgt].st = "live" =>
                /\ status' = "running"
                /\ h[last'.hv] = last'.tgt
                /\ h' = [h EXCEPT ![last'.hv] = NULL]
                /\ mem' = IF mem[last'.tgt].refcount - 1 = 0
                          THEN [mem EXCEPT ![last'.tgt] = FreedBuf]
                          ELSE [mem EXCEPT ![last'.tgt].refcount = mem[last'.tgt].refcount - 1]

ReleaseContract == [][ReleaseStep]_vars

\* The last handle has been released: the storage is freed, the variable NULL.
ReleaseWitness ==
    /\ last.op = "release" /\ OnLive /\ last.pre.refcount = 1
    /\ mem[last.tgt].st = "freed" /\ h[last.hv] = NULL

\* ---------------------------------------------------------------- C7
\* The bounds of the recorded db_slice are invalid (true sum).
BadBounds == last.a1 > last.pre.size \/ last.a1 + last.a2 > last.pre.size

\* C7: whenever offset > size or offset + length > size (the true sum),
\* db_slice returns NULL without aborting and leaves the source unchanged.
SliceBoundsRejection ==
    (last.op = "slice" /\ OnLive /\ BadBounds) =>
        /\ status = "running"
        /\ last.ret = NULL
        /\ mem[last.tgt] = last.pre

\* ---------------------------------------------------------------- C8
\* No call changes a buffer other than the one it is applied to.
OthersUntouched ==
    \A p \in Ids : (mem[p].st = "live" /\ p # last'.tgt) => mem'[p] = mem[p]

\* A db_slice with valid bounds that returns has made a new block holding
\* the requested bytes, with size and capacity length and refcount 1, and has
\* changed nothing else; on a buffer whose bytes lie inside its block it does
\* return.
SliceStep ==
    LET src == mem[last'.tgt]
        offset == last'.a1
        length == last'.a2
    IN  (/\ last'.op = "slice" /\ last'.tgt # NULL /\ src.st = "live"
         /\ offset <= src.size /\ offset + length <= src.size) =>
            /\ src.size <= Len(src.data) => status' = "running"
            /\ status' = "running" =>
                /\ last'.ret # NULL
                /\ mem[last'.ret].st = "none"
                /\ h' = [h EXCEPT ![last'.dst] = last'.ret]
                /\ mem' = [mem EXCEPT ![last'.ret] =
                            [st |-> "live", refcount |-> 1, size |-> length,
                             capacity |-> length,
                             data |-> [k \in 1..length |->
                                        IF offset + k <= Len(src.data)
                                        THEN src.data[offset + k] ELSE Uninit]]]

\* C8: for offset <= size and offset + length <= size, db_slice returns a new
\* buffer with size == capacity == length, refcount 1 and the bytes
\* source[offset .. offset+length); the source is unchanged, and no later call
\* on the one changes the other.
CopySlice == [][SliceStep /\ OthersUntouched]_vars

\* The slice [1, 2) of the bytes 1 2 has been taken.
CopySliceWitness ==
    /\ last.op = "slice" /\ OnLive /\ last.a1 = 1 /\ last.a2 = 1
    /\ status = "running" /\ Live(last.ret)
    /\ last.pre.data = <<1, 2>> /\ last.pre.size = 2
    /\ mem[last.ret].data = <<2>>

\* ---------------------------------------------------------------- C9
\* The recorded slicing call ended as the outcome out of db_slice says.
EndedAs(out) ==
    CASE out.kind = "null" -> status = "running" /\ last.ret = NULL
      [] out.kind = "ok" ->
            \/ /\ status = "running" /\ Live(last.ret)
               /\ db_size(mem[last.ret]) = db_size(out.buf)
               /\ Bytes(mem[last.ret]) = Bytes(out.buf)
            \/ out.oob /\ status = "ub"
      [] OTHER -> status = out.kind

\* size - offset in size_t arithmetic.
SubW(a, b) == (a - b + SIZE_MOD) % SIZE_MOD

\* C9: db_slice_from(buf, offset) gives the result of
\* db_slice(buf, offset, size - offset) and db_slice_to(buf, length) that of
\* db_slice(buf, 0, length); they return NULL exactly when offset > size,
\* respectively length > size.
SliceFromToEquivalence ==
    /\ (last.op = "slice_from" /\ OnLive) =>
          /\ EndedAs(SliceOutcome(last.pre, last.a1, SubW(last.pre.size, last.a1)))
          /\ (status = "running" /\ last.ret = NULL) <=> last.a1 > last.pre.size
    /\ (last.op = "slice_to" /\ OnLive) =>
          /\ EndedAs(SliceOutcome(last.pre, 0, last.a1))
          /\ (status = "running" /\ last.ret = NULL) <=> last.a1 > last.pre.size

\* db_slice_from at the very end of a non-empty buffer has returned an empty
\* buffer.
SliceFromWitness ==
    /\ last.op = "slice_from" /\ OnLive /\ last.pre.size = 2 /\ last.a1 = 2
    /\ status = "running" /\ Live(last.ret) /\ db_size(mem[last.ret]) = 0

\* --------------------------------------------------------------- C10
\* C10: db_new(capacity) returns a non-NULL buffer with size 0, the requested
\* capacity, is_empty true and refcount 1; with capacity 0 (and any capacity
\* the allocator can satisfy) it does return.
NewContract ==
    last.op = "new" =>
        /\ status # "ub"
        /\ last.a1 <= MaxData => status = "running"
        /\ status = "running" =>
              /\ last.ret # NULL
              /\ h[last.dst] = last.ret
              /\ mem[last.ret].st = "live"
              /\ db_size(mem[last.ret]) = 0
              /\ db_capacity(mem[last.ret]) = last.a1
              /\ db_is_empty(mem[last.ret])
              /\ db_refcount(mem[last.ret]) = 1

\* db_new(0) has returned an empty buffer of capacity 0.
NewWitness ==
    /\ last.op = "new" /\ last.a1 = 0 /\ status = "running"
    /\ Live(last.ret) /\ db_capacity(mem[last.ret]) = 0

\* The buffer of the recorded call as the call left it.
After == mem[last.cur]
\* The recorded call was made on a buffer held by one handle only.
Exclusive == OnLive /\ last.pre.refcount = 1
\* The first n bytes of the buffer are those it had before the call.
Kept(n) ==
    \A k \in 1..n : k <= Len(last.pre.data) =>
        k <= Len(After.data) /\ After.data[k] = last.pre.data[k]
Min(a, b) == IF a <= b THEN a ELSE b
Max(a, b) == IF a >= b THEN a ELSE b

\* --------------------------------------------------------------- C11
\* C11: db_new_with_data(data, size) returns a buffer with size and capacity
\* size, refcount 1 and the bytes data[0..size); with size 0 (data NULL or
\* not) it returns a non-NULL empty buffer.
NewWithDataContract ==
    last.op = "new_with_data" =>
        /\ status # "ub"
        /\ Len(last.dat) <= MaxData => status = "running"
        /\ status = "running" =>
              /\ last.ret # NULL
              /\ h[last.dst] = last.ret
              /\ mem[last.ret].st = "live"
              /\ db_size(mem[last.ret]) = Len(last.dat)
              /\ db_capacity(mem[last.ret]) = Len(last.dat)
              /\ db_refcount(mem[last.ret]) = 1
              /\ mem[last.ret].data = last.dat

\* The bytes 1 2 have been copied into a new buffer.
NewWithDataWitness ==
    /\ last.op = "new_with_data" /\ last.dat = <<1, 2>> /\ status = "running"
    /\ Live(last.ret) /\ Bytes(mem[last.ret]) = <<1, 2>>

\* --------------------------------------------------------------- C13
\* C13: a db_resize that succeeds on a buffer with refcount 1 sets size to
\* new_size; if new_size <= capacity the capacity and the first
\* min(old_size, new_size) bytes are unchanged; otherwise the new capacity is
\* at least max(new_size, 2 * old capacity) and the first old_size bytes are
\* preserved; the refcount stays 1 and the caller's handle refers to the
\* (possibly moved) buffer.
ResizeContract ==
    (last.op = "resize" /\ Exclusive /\ status = "running" /\ last.ret = 1) =>
        /\ Live(last.cur) /\ h[last.hv] = last.cur
        /\ db_refcount(After) = 1
        /\ db_size(After) = last.a1
        /\ IF last.a1 <= last.pre.capacity
           THEN /\ db_capacity(After) = last.pre.capacity
                /\ Kept(Min(last.pre.size, last.a1))
           ELSE /\ db_capacity(After) >= Max(last.a1, 2 * last.pre.capacity)
                /\ Kept(last.pre.size)

\* --------------------------------------------------------------- C14
\* C14: a db_reserve that returns on a buffer with refcount 1 has not changed
\* the size or the first size bytes and has not decreased the capacity; after
\* a successful call capacity >= min_capacity; if min_capacity <= capacity
\* the call succeeds and changes nothing at all; a failed call changes
\* nothing; and the call returns unless header + min_capacity wraps.
ReserveContract ==
    (last.op = "reserve" /\ Exclusive) =>
        /\ last.a1 + HeaderSize < SIZE_MOD => status = "running"
        /\ status = "running" =>
              /\ Live(last.cur) /\ h[last.hv] = last.cur
              /\ db_size(After) = last.pre.size
              /\ db_refcount(After) = 1
              /\ Kept(last.pre.size)
              /\ db_capacity(After) >= last.pre.capacity
              /\ last.ret = 1 => db_capacity(After) >= last.a1
              /\ last.a1 <= last.pre.capacity =>
                    last.ret = 1 /\ last.cur = last.tgt /\ After = last.pre
              /\ last.ret = 0 => last.cur = last.tgt /\ After = last.pre

\* A buffer holding one byte in a block of one has been grown to capacity 2.
ReserveWitness ==
    /\ last.op = "reserve" /\ Exclusive /\ status = "running"
    /\ last.pre.size = 1 /\ last.pre.capacity = 1 /\ last.a1 = 2 /\ last.ret = 1
    /\ db_capacity(After) = 2 /\ After.data[1] = last.pre.data[1]

\* --------------------------------------------------------------- C15
\* C15: db_append(buf, data, n) on a buffer with refcount 1: with n = 0 it
\* returns true and changes nothing; with n > 0 a successful call ends with
\* size old_size + n, the bytes [0, old_size) unchanged, the bytes
\* [old_size, old_size + n) equal to data, capacity >= size and refcount 1;
\* it succeeds whenever the allocator can hold old_size + n bytes, and a
\* failed call changes nothing.
AppendContract ==
    (last.op = "append" /\ Exclusive) =>
        /\ status = "running"
        /\ Len(last.dat) = 0 => last.ret = 1 /\ last.cur = last.tgt /\ After = last.pre
        /\ (Len(last.dat) > 0 /\ last.ret = 1) =>
              /\ Live(last.cur) /\ h[last.hv] = last.cur
              /\ db_size(After) = last.pre.size + Len(last.dat)
              /\ Kept(last.pre.size)
              /\ \A k \in 1..Len(last.dat) : After.data[last.pre.size + k] = last.dat[k]
              /\ db_capacity(After) >= db_size(After)
              /\ db_refcount(After) = 1
        /\ last.pre.size + Len(last.dat) <= MaxData => last.ret = 1
        /\ last.ret = 0 => last.cur = last.tgt /\ After = last.pre

\* One byte has been appended behind one stored byte.
AppendWitness ==
    /\ last.op = "append" /\ Exclusive /\ last.pre.size = 1 /\ last.dat = <<2>>
    /\ last.ret = 1 /\ db_size(After) = 2 /\ After.data[1] = last.pre.data[1]
    /\ After.data[2] = 2

\* --------------------------------------------------------------- C16
\* C16: db_append leaves the buffer it is given unchanged (same size and
\* bytes), also when it is given bytes to append.
ImmutableAppend ==
    (last.op = "append" /\ OnLive /\ status = "running") =>
        /\ Live(last.tgt)
        /\ db_size(mem[last.tgt]) = last.pre.size
        /\ Bytes(mem[last.tgt]) = Bytes(last.pre)

\* --------------------------------------------------------------- C17
\* C17: db_clear on a buffer with refcount 1 returns true, sets size to 0 and
\* leaves capacity, refcount and the stored bytes untouched.
ClearContract ==
    (last.op = "clear" /\ Exclusive) =>
        /\ status = "running"
        /\ last.ret = 1
        /\ last.cur = last.tgt /\ h[last.hv] = last.tgt
        /\ After = [last.pre EXCEPT !.size = 0]

\* A buffer of two bytes has been cleared; the bytes are still in the block.
ClearWitness ==
    /\ last.op = "clear" /\ Exclusive /\ last.pre.size = 2 /\ last.ret = 1
    /\ db_size(After) = 0 /\ db_capacity(After) = 2 /\ After.data = <<1, 2>>

\* --------------------------------------------------------------- C12
\* C12: db_new_from_owned_data(data, size, capacity), given a block of the
\* caller that holds size bytes, returns NULL whenever capacity < size (and
\* leaves the block alone); whenever capacity >= size and it returns, the
\* result is a buffer with that size and capacity, refcount 1 and the bytes
\* data[0..size), and the caller's block has been disposed of by the library
\* (the caller must not free it); it returns for every capacity the
\* allocator can satisfy.
OwnedContract ==
    (/\ last.op = "new_from_owned_data"
     /\ last.pre.st = "raw" /\ last.a1 <= Len(last.pre.data)) =>
        IF last.a2 < last.a1
        THEN status = "running" /\ last.ret = NULL /\ mem[last.tgt] = last.pre
        ELSE /\ status # "ub"
             /\ last.a2 <= MaxData => status = "running"
             /\ status = "running" =>
                   /\ last.ret # NULL
                   /\ h[last.dst] = last.ret
                   /\ mem[last.ret].st = "live"
                   /\ db_size(mem[last.ret]) = last.a1
                   /\ db_capacity(mem[last.ret]) = last.a2
                   /\ db_refcount(mem[last.ret]) = 1
                   /\ Bytes(mem[last.ret]) = SubSeq(last.pre.data, 1, last.a1)
                   /\ mem[last.tgt].st = "freed"

\* A block holding 1 2 has become a buffer of size 1 and capacity 2.
OwnedWitness ==
    /\ last.op = "new_from_owned_data" /\ last.pre.st = "raw"
    /\ last.pre.data = <<1, 2>> /\ last.a1 = 1 /\ last.a2 = 2
    /\ status = "running" /\ Live(last.ret) /\ Bytes(mem[last.ret]) = <<1>>
    /\ mem[last.tgt].st = "freed"

\* The handle is NULL or refers to a live buffer whose bytes lie inside its
\* block.
WellFormed(p) == p = NULL \/ (Live(p) /\ mem[p].size <= Len(mem[p].data))

\* --------------------------------------------------------------- C18
\* A db_concat of two such operands: it returns whenever the allocator can
\* hold the result; what it returns is a block not in use before, with
\* refcount 1, whose size is the sum of the operands' sizes (0 for NULL) and
\* whose bytes are the first operand's followed by the second's; nothing else
\* in the heap changes, and only the result variable is assigned.
ConcatStep ==
    LET a == last'.tgt
        b == Arg(last'.a1)
        A == Bytes(Deref(a))
        B == Bytes(Deref(b))
        r == last'.ret
    IN  (last'.op = "concat" /\ WellFormed(a) /\ WellFormed(b)) =>
            /\ status' # "ub"
            /\ Len(A) + Len(B) <= MaxData => status' = "running"
            /\ status' = "running" =>
                  /\ r \in Ids /\ mem[r].st = "none"
                  /\ h' = [h EXCEPT ![ResultVar] = r]
                  /\ mem'[r].st = "live"
                  /\ db_refcount(mem'[r]) = 1
                  /\ db_size(mem'[r]) = Len(A) + Len(B)
                  /\ Bytes(mem'[r]) = A \o B
                  /\ \A p \in Ids \ {r} : mem'[p] = mem[p]

\* C18: db_concat(a, b) returns a fresh buffer (refcount 1) with size
\* size(a) + size(b) and a's bytes followed by b's, a NULL operand counting
\* as zero-length (concat(NULL, NULL) is a non-NULL empty buffer); the
\* operands' size, bytes and refcount are unchanged.
ConcatContract == [][ConcatStep]_vars

\* The bytes 2 and 1 of two different buffers have been joined in that order.
ConcatWitness ==
    /\ last.op = "concat" /\ status = "running"
    /\ Live(last.tgt) /\ Live(last.cur) /\ last.tgt # last.cur
    /\ Bytes(mem[last.tgt]) = <<2>> /\ Bytes(mem[last.cur]) = <<1>>
    /\ Live(last.ret) /\ Bytes(mem[last.ret]) = <<2, 1>>

\* --------------------------------------------------------------- C19
\* db_concat folded from the left over the headers and blocks bs, starting
\* from the outcome acc.
RECURSIVE FoldConcat(_, _)
FoldConcat(acc, bs) ==
    IF bs = <<>> \/ acc.kind # "ok" THEN acc
    ELSE FoldConcat(ConcatOutcome(acc.buf, Head(bs)), Tail(bs))

\* The bytes of the entries in list order.
RECURSIVE Flatten(_)
Flatten(bs) == IF bs = <<>> THEN <<>> ELSE Bytes(Head(bs)) \o Flatten(Tail(bs))

\* A db_concat_many over entries that are NULL or well-formed buffers ends
\* as the fold of db_concat over them ends: it aborts exactly when the fold
\* aborts, and otherwise returns a fresh non-NULL buffer with the size and
\* bytes of the fold's result, which are the sum of the entries' sizes and
\* the entries' bytes in list order.
ConcatManyStep ==
    LET bs == Blocks(last'.dat)
        fold == FoldConcat([kind |-> "ok", buf |-> NoBuf, oob |-> FALSE], bs)
        r == last'.ret
    IN  (last'.op = "concat_many" /\ \A i \in 1..Len(last'.dat) : WellFormed(last'.dat[i])) =>
            /\ status' # "ub"
            /\ status' = "aborted" <=> fold.kind = "aborted"
            /\ status' = "running" =>
                  /\ fold.kind = "ok"
                  /\ r \in Ids /\ mem[r].st = "none"
                  /\ h' = [h EXCEPT ![ResultVar] = r]
                  /\ mem'[r].st = "live"
                  /\ db_refcount(mem'[r]) = 1
                  /\ db_size(mem'[r]) = db_size(fold.buf)
                  /\ Bytes(mem'[r]) = Bytes(fold.buf)
                  /\ db_size(mem'[r]) = TrueSize(bs)
                  /\ Bytes(mem'[r]) = Flatten(bs)
                  /\ \A p \in Ids \ {r} : mem'[p] = mem[p]

\* C19: db_concat_many(list, count) yields the bytes and size of folding
\* db_concat from the left over the list: the size is the sum of the sizes of
\* the non-NULL entries, the bytes are the entries' bytes in list order; a
\* NULL list or count 0 yields a non-NULL zero-length buffer.
ConcatManyContract == [][ConcatManyStep]_vars

\* Three entries, the middle one NULL, have been joined: 2 then 1.
ConcatManyWitness ==
    /\ last.op = "concat_many" /\ status = "running" /\ Len(last.dat) = 3
    /\ last.dat[2] = NULL /\ Live(last.dat[1]) /\ Live(last.dat[3])
    /\ last.dat[1] # last.dat[3]
    /\ Live(last.ret) /\ Bytes(mem[last.ret]) = <<2, 1>>

\* --------------------------------------------------------------- C20
\* Every byte of the buffer below its size has been written.
Written(p) == p = NULL \/ \A k \in 1..mem[p].size : mem[p].data[k] # Uninit

\* C20: db_equals(a, b) is true if and only if a and b are the same handle
\* (both NULL included) or both are buffers of equal size with identical
\* bytes in [0, size); capacity, refcount and the bytes beyond size do not
\* enter.
EqualsContract ==
    LET a == last.tgt
        b == Arg(last.a1)
    IN  (/\ last.op = "equals" /\ WellFormed(a) /\ WellFormed(b)
         /\ Written(a) /\ Written(b)) =>
            /\ status = "running"
            /\ last.ret = 1 <=>
                  \/ a = b
                  \/ /\ a # NULL /\ b # NULL
                     /\ db_size(mem[a]) = db_size(mem[b])
                     /\ Bytes(mem[a]) = Bytes(mem[b])

\* Two buffers with the same byte but different capacity, refcount and
\* spare bytes have been found equal.
EqualsWitness ==
    /\ last.op = "equals" /\ last.ret = 1
    /\ Live(last.tgt) /\ Live(last.cur) /\ last.tgt # last.cur
    /\ db_size(mem[last.tgt]) = 1
    /\ db_capacity(mem[last.tgt]) # db_capacity(mem[last.cur])
    /\ db_refcount(mem[last.tgt]) # db_refcount(mem[last.cur])
    /\ mem[last.tgt].data # mem[last.cur].data

\* --------------------------------------------------------------- C21
\* The order of two byte strings: by the first position at which they
\* differ, and the shorter first when one is a prefix of the other.
RECURSIVE LexSign(_, _)
LexSign(x, y) ==
    IF x = <<>> THEN (IF y = <<>> THEN 0 ELSE -1)
    ELSE IF y = <<>> THEN 1
    ELSE IF Head(x) < Head(y) THEN -1
    ELSE IF Head(x) > Head(y) THEN 1
    ELSE LexSign(Tail(x), Tail(y))

\* The buffer behind the handle p (if any) is live, its size lies inside its
\* block and its bytes below size have been written.
Comparable(p) == WellFormed(p) /\ Written(p)

\* C21: db_compare orders two buffers lexicographically by unsigned byte
\* value, the shorter first when it is a prefix of the other; NULL is less
\* than every buffer, the empty one included, and two NULLs are equal.  The
\* result is negative, zero or positive accordingly.
CompareContract ==
    LET a == Arg(last.hv)
        b == Arg(last.a1)
    IN  (last.op = "compare" /\ Comparable(a) /\ Comparable(b)) =>
            /\ status = "running"
            /\ Sign(last.ret) =
                  IF a = NULL THEN (IF b = NULL THEN 0 ELSE -1)
                  ELSE IF b = NULL THEN 1
                  ELSE LexSign(Bytes(mem[a]), Bytes(mem[b]))

\* A buffer whose first byte is 200 has been compared with one whose first
\* byte is 1, and found greater.
CompareWitness ==
    /\ last.op = "compare" /\ status = "running" /\ last.ret > 0
    /\ Live(last.tgt) /\ Live(last.cur)
    /\ Bytes(mem[last.tgt]) = <<200>>
    /\ Bytes(mem[last.cur]) = <<1, 200>>

\* --------------------------------------------------------------- C22
\* C22: over the handles of a state, db_compare is an order that agrees with
\* db_equals: handles that compare 0 are equal, the comparison of b with a
\* has the opposite sign of that of a with b, and a <= b and b <= c give
\* a <= c.
CompareOrder ==
    \A a \in AllVars \cup {0}, b \in AllVars \cup {0}, c \in AllVars \cup {0} :
        (Comparable(Arg(a)) /\ Comparable(Arg(b)) /\ Comparable(Arg(c))) =>
            \A ab \in CompareOutcome(Arg(a), Arg(b)).rets,
               ba \in CompareOutcome(Arg(b), Arg(a)).rets,
               bc \in CompareOutcome(Arg(b), Arg(c)).rets,
               ac \in CompareOutcome(Arg(a), Arg(c)).rets :
                /\ ab = 0 => EqualsOutcome(Arg(a), Arg(b)).rets = {1}
                /\ Sign(ab) = -Sign(ba)
                /\ (ab <= 0 /\ bc <= 0) => ac <= 0

\* Three buffers in strictly ascending order, the second a proper extension
\* of the first, and two of them just compared.
CompareOrderWitness ==
    /\ last.op = "compare" /\ status = "running"
    /\ \A v \in AllVars : Live(h[v]) /\ Comparable(h[v])
    /\ Bytes(mem[h[1]]) = <<1>>
    /\ Bytes(mem[h[2]]) = <<1, 200>>
    /\ Bytes(mem[h[3]]) = <<200>>
    /\ last.hv = 1 /\ last.a1 = 2 /\ last.ret < 0

\* --------------------------------------------------------------- C25
\* The calls that write a run of bytes.
RunOps == {"write_bytes", "write_cstring"}

\* A step that is a write of n bytes at position p through a builder whose
\* buffer has refcount 1: it returns whenever the allocator can hold p + n
\* bytes; when it returns with n > 0 the position is p + n, the size is
\* max(old size, p + n), the capacity is at least p + n, the bytes [p, p + n)
\* are those given and the bytes below the old size outside [p, p + n) are as
\* before; with n = 0 nothing changes.  db_write_cstring writes the chars
\* before the string's terminator, and not the terminator.
WriteStep ==
    LET b == BuilderBuf
        pre == mem[b]
        p == bld.position
        dat == last'.dat
        n == Len(dat)
        post == mem'[last'.cur]
    IN  (/\ last'.op \in RunOps /\ bld.st = "live" /\ Live(b)
         /\ pre.refcount = 1 /\ pre.size <= Len(pre.data)) =>
            /\ (p + n <= MaxData) => status' = "running"
            /\ (last'.op = "write_cstring") =>
                  /\ \A k \in 1..n : dat[k] = last'.a2[k] /\ dat[k] # 0
                  /\ last'.a2[n + 1] = 0
            /\ (status' = "running" /\ n = 0) =>
                  /\ mem' = mem /\ h' = h /\ bld' = bld
            /\ (status' = "running" /\ n > 0) =>
                  /\ bld'.position = p + n
                  /\ bld' = [bld EXCEPT !.position = p + n, !.cell = bld'.cell,
                                        !.top = bld'.top]
                  /\ (IF bld.owns THEN bld'.cell ELSE h'[bld.var]) = last'.cur
                  /\ post.st = "live" /\ post.refcount = 1
                  /\ post.size = Max(pre.size, p + n)
                  /\ post.capacity >= p + n
                  /\ Len(post.data) >= p + n
                  /\ \A k \in 1..n : post.data[p + k] = dat[k]
                  /\ \A k \in 1..pre.size :
                        (k <= p \/ k > p + n) => post.data[k] = pre.data[k]

\* C25: a write through a builder over an exclusively owned buffer places
\* the bytes at the position, advances the position, raises size and
\* capacity as far as needed and leaves the other bytes alone.
WriteContract == [][WriteStep]_vars

\* One char has been written in the middle of a two-byte buffer by
\* db_write_cstring: the size is still 2 and the first byte is as before.
WriteWitness ==
    /\ last.op = "write_cstring" /\ status = "running"
    /\ last.a1 = 1 /\ last.dat = <<3>>
    /\ last.pre.refcount = 1 /\ last.pre.size = 2
    /\ mem[last.cur].size = 2 /\ bld.position = 2
    /\ mem[last.cur].data[1] = 1 /\ mem[last.cur].data[2] = 3

\* --------------------------------------------------------------- C26
\* A step that makes or finishes a builder.  db_builder_new(c) makes a new
\* empty buffer of capacity c and refcount 1 and stands at 0;
\* db_builder_from_buffer stands at the size of the buffer given, which it
\* leaves as it is; db_builder_finish returns the bound buffer, ends the
\* builder and changes no buffer, and the buffer has as its size the
\* highest position reached or, if that is more, the size it had when the
\* builder was made (bld.top).
LifecycleStep ==
    /\ (last'.op = "builder_new" /\ status' = "running") =>
          /\ bld'.st = "live" /\ bld'.owns /\ bld'.position = 0
          /\ mem[bld'.cell].st = "none"
          /\ mem'[bld'.cell].st = "live"
          /\ db_size(mem'[bld'.cell]) = 0
          /\ db_capacity(mem'[bld'.cell]) = last'.a1
          /\ db_refcount(mem'[bld'.cell]) = 1
          /\ \A q \in Ids \ {bld'.cell} : mem'[q] = mem[q]
          /\ h' = h
    /\ (last'.op = "builder_from_buffer" /\ status' = "running") =>
          /\ bld'.st = "live" /\ ~bld'.owns
          /\ h[bld'.var] = last'.tgt
          /\ bld'.position = db_size(mem[last'.tgt])
          /\ mem' = mem /\ h' = h
    /\ (last'.op = "builder_finish" /\ bld.st = "live") =>
          /\ status' = "running"
          /\ last'.ret = BuilderBuf
          /\ h' = [h EXCEPT ![last'.dst] = BuilderBuf]
          /\ bld' = NoBuilder
          /\ mem' = mem
          /\ Live(BuilderBuf) => db_size(mem[BuilderBuf]) = bld.top

\* C26: the builder's lifecycle: where db_builder_new and
\* db_builder_from_buffer start, and what db_builder_finish returns, for
\* builders of both kinds.
BuilderLifecycle == [][LifecycleStep]_vars

\* --------------------------------------------------------------- C27
\* A step that is a seek of the builder or the reader to p over a live
\* buffer: with p <= size it returns with the position p and nothing else
\* changed; with p > size the program is ended by the assertion and nothing
\* has moved.
SeekStep ==
    LET isb == last'.op = "builder_seek"
        b == IF isb THEN BuilderBuf ELSE rdr.buf
        p == last'.a1
    IN  (last'.op \in SeekOps /\ Live(b)) =>
            /\ mem' = mem /\ h' = h /\ nextId' = nextId
            /\ IF p <= db_size(mem[b])
               THEN /\ status' = "running"
                    /\ bld' = IF isb THEN [bld EXCEPT !.position = p] ELSE bld
                    /\ rdr' = IF isb THEN rdr ELSE [rdr EXCEPT !.position = p]
               ELSE /\ status' = "aborted"
                    /\ bld' = bld /\ rdr' = rdr

\* C27: seek(p) of a builder or a reader moves to p when p <= size, p = size
\* included, and is a failed assertion when p > size.
SeekContract == [][SeekStep]_vars

\* The reader has been moved to the end of a buffer that is not empty, while
\* a builder stands elsewhere in the same buffer.
SeekWitness ==
    /\ last.op = "reader_seek" /\ status = "running"
    /\ last.a1 = db_size(mem[rdr.buf]) /\ last.a1 > 0
    /\ rdr.position = last.a1
    /\ bld.st = "live" /\ BuilderBuf = rdr.buf /\ bld.position # rdr.position

\* --------------------------------------------------------------- C24
\* C24: while a builder is bound to a buffer, its position is at most the
\* buffer's size, whatever the caller does with the buffer through its own
\* handle in between.
BuilderWithinBuffer ==
    (bld.st = "live" /\ Live(BuilderBuf)) => bld.position <= db_size(mem[BuilderBuf])

\* --------------------------------------------------------------- C23
\* C23: db_compare returns one of -1, 0 and 1.
CompareThreeValued ==
    (last.op = "compare" /\ status = "running") => last.ret \in {-1, 0, 1}

\* --------------------------------------------------------------- C28
\* The calls that write a value low byte first, and high byte first, and
\* the bytes a call writes.
LEOps == {"write_uint16_le", "write_uint32_le", "write_uint64_le"}
BEOps == {"write_uint16_be", "write_uint32_be", "write_uint64_be"}
\* The one buffer of a caller that encodes and decodes.
Encoded == IF bld.st = "live" THEN BuilderBuf ELSE h[1]

\* C28: a little-endian write of a 16-, 32- or 64-bit value v at position p
\* leaves (v >> 8i) mod 256 in byte p + i, a big-endian write in byte
\* p + (width - 1 - i), for every i below the width in bytes.
EndianContract ==
    \A j \in 1..Len(io) :
        LET e == io[j]
            width == Len(e.bytes)
            d == mem[Encoded].data
        IN  (Live(Encoded) /\ e.op \in LEOps \cup BEOps) =>
                /\ width = 2 * Len(e.value)
                /\ e.at + width <= Len(d)
                /\ \A i \in 0..(width - 1) :
                      d[e.at + 1 + (IF e.op \in LEOps THEN i ELSE width - 1 - i)]
                          = ByteOf(e.value, 8 * i)

\* 0x1234 has been written little-endian and then big-endian: the buffer
\* holds 34 12 12 34.
EndianWitness ==
    /\ Len(io) = 2
    /\ io[1].op = "write_uint16_le" /\ io[2].op = "write_uint16_be"
    /\ Live(Encoded) /\ Bytes(mem[Encoded]) = <<52, 18, 18, 52>>

\* --------------------------------------------------------------- C29
\* The read call that takes back what a write call wrote.
ReadOf(op) ==
    CASE op = "write_uint8" -> "read_uint8"
      [] op = "write_uint16_le" -> "read_uint16_le"
      [] op = "write_uint16_be" -> "read_uint16_be"
      [] op = "write_uint32_le" -> "read_uint32_le"
      [] op = "write_uint32_be" -> "read_uint32_be"
      [] op = "write_uint64_le" -> "read_uint64_le"
      [] op = "write_uint64_be" -> "read_uint64_be"
      [] OTHER -> "read_bytes"

\* C29: a read of the kind and length of a write, made at the position the
\* write was made at, returns the value written and ends where the write
\* ended; so values written one behind the other through a new builder are
\* read back in the same order, and nothing remains after the last.
RoundTrip ==
    \A j \in 1..Len(io) :
        LET e == io[j]
        IN  (/\ last.op = ReadOf(e.op) /\ last.a1 = e.at
             /\ last.a2 = Len(e.bytes)) =>
                /\ status = "running"
                /\ last.ret = IF ReadOf(e.op) = "read_bytes" THEN e.bytes ELSE e.value
                /\ rdr.position = e.at + Len(e.bytes)
                /\ j = Len(io) => db_reader_remaining = 0

\* 0x42, 0x1234 little-endian and 0xF2345678 big-endian have been written
\* and read back, the last of them just now.
RoundTripWitness ==
    /\ Len(io) = 3
    /\ io[1].op = "write_uint8" /\ io[2].op = "write_uint16_le"
    /\ io[3].op = "write_uint32_be" /\ io[3].value = <<22136, 62004>>
    /\ last.op = "read_uint32_be" /\ status = "running"
    /\ last.a1 = 3 /\ last.ret = <<22136, 62004>>
    /\ db_reader_remaining = 0

\* --------------------------------------------------------------- C30
\* A step of the reader.  db_reader_new adds one to the refcount of the
\* buffer and stands at 0; db_reader_free takes one from it (and frees the
\* buffer with the last reference), ends the reader and is a no-op without
\* a reader; the reads and seeks in between change no buffer.
ReaderStep ==
    /\ (last'.op = "reader_new" /\ status' = "running") =>
          /\ h[last'.hv] = last'.tgt /\ Live(last'.tgt)
          /\ mem' = [mem EXCEPT ![last'.tgt].refcount = @ + 1]
          /\ rdr' = [st |-> "live", buf |-> last'.tgt, position |-> 0]
          /\ h' = h
    /\ (last'.op = "reader_free" /\ rdr.st = "none") =>
          /\ status' = "running"
          /\ mem' = mem /\ rdr' = rdr /\ h' = h
    /\ (last'.op = "reader_free" /\ rdr.st = "live" /\ Live(rdr.buf)) =>
          /\ status' = "running"
          /\ rdr' = NoReader
          /\ h' = h
          /\ mem' = IF mem[rdr.buf].refcount = 1
                    THEN [mem EXCEPT ![rdr.buf] = FreedBuf]
                    ELSE [mem EXCEPT ![rdr.buf].refcount = @ - 1]
    /\ (last'.op \in {"reader_seek", "read_uint8", "read_bytes"}) =>
          /\ mem' = mem /\ h' = h
          /\ rdr'.st = rdr.st /\ rdr'.buf = rdr.buf

\* C30: the reader's lifecycle.
ReaderLifecycle == [][ReaderStep]_vars

\* A reader that has read to the end of a two-byte buffer has been freed:
\* the buffer has the refcount 1 and the bytes it had.
ReaderLifecycleWitness ==
    /\ last.op = "reader_free" /\ status = "running"
    /\ last.pre.refcount = 2 /\ rdr.st = "none"
    /\ h[1] = last.tgt /\ db_refcount(mem[last.tgt]) = 1
    /\ Bytes(mem[last.tgt]) = <<1, 2>>

\* --------------------------------------------------------------- C31
\* C31: the position of a live reader is at most the size of its buffer,
\* whatever is done to the buffer through other handles in between.
ReaderWithinBuffer ==
    (rdr.st = "live" /\ Live(rdr.buf)) => rdr.position <= db_size(mem[rdr.buf])

\* --------------------------------------------------------------- C33
\* C33: for a live reader db_reader_remaining is size - position, and
\* db_reader_can_read(n) holds exactly for the n up to it.
RemainingContract ==
    (rdr.st = "live" /\ Live(rdr.buf)) =>
        /\ db_reader_remaining = db_size(mem[rdr.buf]) - rdr.position
        /\ \A n \in 0..(MaxData + 1) :
              db_reader_can_read(n) <=> n <= db_size(mem[rdr.buf]) - rdr.position

\* --------------------------------------------------------------- C40
\* C40: while a reader is live its buffer has not been freed, whatever
\* handles the caller has released; and once the caller holds no handle and
\* no reader or builder is left, every block made in the run has been freed.
ReaderKeepsAlive ==
    /\ rdr.st = "live" => Live(rdr.buf)
    /\ (/\ status = "running" /\ rdr.st = "none" /\ bld.st = "none"
        /\ \A v \in AllVars : h[v] = NULL) =>
            \A q \in Ids : q < nextId => mem[q].st = "freed"

\* --------------------------------------------------------------- C32
\* The read calls, with the bytes each takes.
IntReads ==
    [read_uint8 |-> 1, read_uint16_le |-> 2, read_uint16_be |-> 2,
     read_uint32_le |-> 4, read_uint32_be |-> 4, read_uint64_le |-> 8,
     read_uint64_be |-> 8]
LEReads == {"read_uint16_le", "read_uint32_le", "read_uint64_le"}
BEReads == {"read_uint16_be", "read_uint32_be", "read_uint64_be"}

\* A read of n bytes by a live reader at position p of a buffer of size s:
\* with p + n <= s it returns the value of the bytes [p, p + n) (byte i of a
\* little-endian value is the byte at p + i, of a big-endian one the byte at
\* p + n - 1 - i), moves the position to p + n and leaves the buffers as
\* they are; with p + n > s the assertion fails: nothing is returned and
\* the position stays.
ReadStep ==
    (/\ last'.op \in DOMAIN IntReads \cup {"read_bytes"}
     /\ rdr.st = "live" /\ Live(rdr.buf)) =>
        LET op == last'.op
            n == last'.a2
            p == rdr.position
            b == mem[rdr.buf]
        IN  /\ op \in DOMAIN IntReads => n = IntReads[op]
            /\ mem' = mem /\ h' = h
            /\ IF p + n <= db_size(b)
               THEN /\ status' = "running"
                    /\ rdr' = [rdr EXCEPT !.position = p + n]
                    /\ op = "read_uint8" => last'.ret = b.data[p + 1]
                    /\ op = "read_bytes" =>
                          last'.ret = [i \in 1..n |-> b.data[p + i]]
                    /\ op \in LEReads =>
                          \A i \in 0..(n - 1) :
                              ByteOf(last'.ret, 8 * i) = b.data[p + 1 + i]
                    /\ op \in BEReads =>
                          \A i \in 0..(n - 1) :
                              ByteOf(last'.ret, 8 * i) = b.data[p + n - i]
               ELSE /\ status' = "aborted"
                    /\ last'.ret = -1
                    /\ rdr' = rdr

\* C32: the reads are bounds-checked.
ReadContract == [][ReadStep]_vars

\* A 32-bit big-endian read has returned 0xF2345678 from the bytes F2 34 56
\* 78 at position 3, and the 16-bit read after it has failed at the end of
\* the buffer.
ReadWitness ==
    /\ last.op = "read_uint16_le" /\ status = "aborted"
    /\ rdr.st = "live" /\ rdr.position = 7 /\ Live(rdr.buf)
    /\ db_size(mem[rdr.buf]) = 7
    /\ ReadAt(mem[rdr.buf].data, 3, 4) = <<242, 52, 86, 120>>

\* --------------------------------------------------------------- C35
\* C35: a db_new or db_new_with_data whose header size + capacity does not
\* fit the word fails its assertion and creates nothing, and the recorded
\* capacity of every buffer is at most the data bytes of its block.
CreationChecked ==
    /\ (last.op \in {"new", "new_with_data"} /\ HeaderSize + last.a1 > SIZE_MAX) =>
          /\ status = "aborted"
          /\ h[last.dst] = NULL
    /\ \A p \in Ids : Live(p) => db_capacity(mem[p]) <= Len(mem[p].data)

\* db_new(SIZE_MAX) has been refused while another buffer is held.
CreationWitness ==
    /\ last.op = "new" /\ last.a1 = SIZE_MAX /\ status = "aborted"
    /\ \E v \in Vars : Live(h[v]) /\ db_capacity(mem[h[v]]) = MaxData

\* --------------------------------------------------------------- C36
\* The handles the threads hold, and the count after the updates made.
HeldBy(t) == thr.held[t] + (IF thr.pc[t] = "dec" THEN 1 ELSE 0)
RECURSIVE HeldUpTo(_)
HeldUpTo(t) == IF t = 0 THEN 0 ELSE HeldBy(t) + HeldUpTo(t - 1)
Counted == 1 + thr.retains - thr.releases

\* C36: with the atomic counter no access to the buffer is made after it
\* was freed, the refcount of the buffer is the initial 1 plus the retains
\* less the releases made, which is the number of handles held; the buffer
\* is freed once, and it has been freed when a release has brought the
\* count to 0 and returned.
AtomicCount ==
    (thr.atomic /\ thr.buf # NULL) =>
        /\ status = "running"
        /\ Counted = HeldUpTo(NThreads)
        /\ Live(thr.buf) => db_refcount(mem[thr.buf]) = Counted
        /\ ~Live(thr.buf) => Counted = 0 /\ thr.frees = 1
        /\ Live(thr.buf) => thr.frees = 0
        /\ (Counted = 0 /\ \A t \in Threads : thr.pc[t] = "idle") => ~Live(thr.buf)

\* With the atomic counter both threads have decremented the count in their
\* db_release and neither has tested it yet: one has 1 in hand and the other
\* 0, and the buffer is still there to be freed.
AtomicWitness ==
    /\ thr.atomic /\ thr.retains = 1 /\ thr.releases = 2
    /\ thr.pc[1] = "test" /\ thr.pc[2] = "test"
    /\ {thr.tmp[1], thr.tmp[2]} = {0, 1}
    /\ Live(thr.buf) /\ db_refcount(mem[thr.buf]) = 0

\* --------------------------------------------------------------- C37
\* db_reserve has just grown a buffer that had the refcount 1.
Reserved ==
    /\ last.op = "reserve" /\ status = "running" /\ last.ret = 1
    /\ last.pre.refcount = 1 /\ last.a1 > last.pre.capacity

\* C37: a db_reserve that grows a buffer leaves a capacity of at least
\* min_capacity and at least twice the old capacity.
ReserveDoubles ==
    Reserved =>
        /\ db_capacity(mem[last.cur]) >= last.a1
        /\ db_capacity(mem[last.cur]) >= 2 * last.pre.capacity

\* C37, amended: a db_reserve that grows a buffer leaves a capacity of
\* exactly min_capacity, and the size and the bytes as they were.
ReserveExact ==
    Reserved =>
        /\ db_capacity(mem[last.cur]) = last.a1
        /\ Len(mem[last.cur].data) = last.a1
        /\ db_size(mem[last.cur]) = last.pre.size
        /\ Bytes(mem[last.cur]) = Bytes(last.pre)

\* db_reserve(3) has grown a buffer of two bytes and capacity 2 to the
\* capacity 3.
ReserveExactWitness ==
    /\ Reserved /\ last.pre.capacity = MaxData /\ last.a1 = MaxData + 1
    /\ db_capacity(mem[last.cur]) = MaxData + 1
    /\ Bytes(mem[last.cur]) = <<1, 2>>

\* --------------------------------------------------------------- C38
\* C38: a write through a builder that needs more than the capacity of a
\* buffer with a refcount above 1 (db_reserve refuses to grow it) returns
\* with the buffer as it was: no byte stored, the size not raised.
FailedGrowthHarmless ==
    (/\ last.op = "write_bytes" /\ last.pre.st = "live"
     /\ IsShared(last.pre.refcount)
     /\ last.a1 + Len(last.dat) > last.pre.capacity) =>
        /\ status = "running"
        /\ mem[last.tgt] = last.pre

\* --------------------------------------------------------------- C39
\* C39: a db_resize, db_reserve or db_append on a buffer with the refcount 1
\* makes no access outside a block, and when it returns the size is at most
\* the capacity and the capacity at most the data bytes of the block,
\* whatever word the argument is.
GrowthChecked ==
    (/\ last.op \in {"resize", "reserve", "append"}
     /\ last.pre.st = "live" /\ last.pre.refcount = 1) =>
        /\ status # "ub"
        /\ status = "running" =>
              /\ db_size(mem[last.cur]) <= db_capacity(mem[last.cur])
              /\ db_capacity(mem[last.cur]) <= Len(mem[last.cur].data)

\* --------------------------------------------------------------- C34
\* The characters that are hex digits, and those db_to_hex writes.
IsHexDigit(c) == c \in (48..57) \cup (65..70) \cup (97..102)
DigitsOf(flag) == (48..57) \cup (IF flag = 1 THEN 65..70 ELSE 97..102)

\* Every byte of the string has been written.
Determined(str) == \A k \in 1..Len(str) : str[k] # Uninit
\* The recorded db_from_hex was given a string, with a length that lies
\* inside the string's storage.
TextGiven == last.op = "from_hex" /\ last.a2 = 0 /\ last.a1 = Len(last.dat)

\* C34: for buffers and texts whose bytes have all been written, db_to_hex
\* returns a buffer of twice the size, made of digits of the case asked for;
\* db_from_hex of a text that db_to_hex has produced, in either case,
\* returns a buffer of the bytes the text was made from; and db_from_hex
\* with an odd length, or of a text with a character that is no hex digit,
\* returns NULL and leaves no block allocated that no handle refers to.
HexRoundTrip ==
    /\ (last.op = "to_hex" /\ status = "running" /\ Determined(last.dat)) =>
          /\ db_size(mem[last.cur]) = 2 * Len(last.dat)
          /\ \A k \in 1..(2 * Len(last.dat)) :
                mem[last.cur].data[k] \in DigitsOf(last.a1)
    /\ \A j \in 1..Len(io) :
          (TextGiven /\ last.dat = io[j].bytes /\ Determined(io[j].value)) =>
              /\ status = "running" /\ last.ret # NULL
              /\ h[last.dst] = last.ret
              /\ Bytes(mem[last.ret]) = io[j].value
    /\ (\/ last.op = "from_hex" /\ last.a1 % 2 = 1
        \/ /\ TextGiven
           /\ \E k \in 1..Len(last.dat) :
                 last.dat[k] # Uninit /\ ~IsHexDigit(last.dat[k])) =>
              /\ status = "running" /\ last.ret = NULL
              /\ h[last.dst] = NULL
              /\ \A p \in Ids : Live(p) => \E v \in AllVars : h[v] = p

\* The bytes 01 EF have been turned into "01ef", and db_from_hex of that
\* text has just returned a buffer of the bytes 01 EF.
HexWitness ==
    /\ Len(io) = 1 /\ io[1].value = <<1, 239>> /\ io[1].at = 0
    /\ io[1].bytes = <<48, 49, 101, 102>>
    /\ TextGiven /\ last.dat = io[1].bytes /\ status = "running"
    /\ last.ret # NULL /\ Bytes(mem[last.ret]) = <<1, 239>>
====
